---- MODULE Spec2Model ----
(***************************************************************************)
(* A model of cli-core: the transactional installer (add-helpers.ts with   *)
(* fs.ts and package-manager.ts), the dependency resolver and the cached   *)
(* bundle loader (registry.ts) and the bundler (bundler.ts).               *)
(*                                                                         *)
(* Each component has its own specification over the shared variables:     *)
(*   Spec          the installer running on a small file system            *)
(***************************************************************************)
EXTENDS Integers, Sequences, FiniteSets, TLC

\* ------------------------------------------------------------------ bounds

\* The longest fileOps list a call of writeFilesWithRollback is given.
MaxOps == 3

\* The most registryDependencies entries a registry holds, over all its items.
MaxEdges == 3

\* The longest list of requested names resolveRegistryDeps is given.
MaxNames == 2

\* The most top-level fields extraContent returns.
MaxExtraKeys == 1
MaxItems == 2
MaxMtime == 2
MaxLines == 2
MaxElems == 2
MaxInputs == 2
MaxRuns == 2

\* --------------------------------------------------------------- utilities

Range(s) == {s[i] : i \in DOMAIN s}

\* Array.prototype.includes
Includes(s, x) == \E i \in DOMAIN s : s[i] = x

\* Array.prototype.reverse
Reverse(s) == [i \in 1..Len(s) |-> s[Len(s) + 1 - i]]

SeqsUpTo(S, n) == UNION {[1..k -> S] : k \in 0..n}

\* --------------------------------------------------------------------------
\* The file system.  A path is the sequence of its segments; files holds the
\* bytes of every existing regular file, dirs the existing directories, tmps
\* the ".tmp-<random>" files of writeFileSafe that are on disk.
\* --------------------------------------------------------------------------

VARIABLES files, dirs, tmps

fsVars == <<files, dirs, tmps>>

\* path.dirname
dirname(p) == SubSeq(p, 1, Len(p) - 1)

\* A directory and all its ancestors, the root (the empty path) included.
Prefixes(d) == {SubSeq(d, 1, k) : k \in 0..Len(d)}

\* The target paths the file operations are drawn from.
Targets == {<<"a", "f">>, <<"a", "b", "g">>}

AllDirs == UNION {Prefixes(dirname(t)) : t \in Targets}

\* File contents are byte sequences; strings are sequences of code points.
\* OldBytes is a text file, BinBytes a file that is not valid UTF-8.
OldBytes == <<111>>
BinBytes == <<255>>
InitBytes == {OldBytes, BinBytes}

\* The contents (strings) the file operations carry.
OpContents == {<<110>>}

\* Buffer.toString("utf-8"), as readFileSync(path, "utf-8") decodes: an ASCII
\* byte is its code point, EF BF BD is U+FFFD, and a byte that starts no valid
\* sequence is replaced by U+FFFD.  (Covers the bytes the model uses.)
RECURSIVE UTF8Decode(_)
UTF8Decode(b) ==
    IF b = <<>> THEN <<>>
    ELSE IF Head(b) < 128 THEN <<Head(b)>> \o UTF8Decode(Tail(b))
    ELSE IF Len(b) >= 3 /\ SubSeq(b, 1, 3) = <<239, 191, 189>>
         THEN <<65533>> \o UTF8Decode(SubSeq(b, 4, Len(b)))
    ELSE <<65533>> \o UTF8Decode(Tail(b))

\* The bytes writeFileSync(path, string) writes: the string's UTF-8 encoding.
RECURSIVE UTF8Encode(_)
UTF8Encode(s) ==
    IF s = <<>> THEN <<>>
    ELSE IF Head(s) < 128 THEN <<Head(s)>> \o UTF8Encode(Tail(s))
    ELSE <<239, 191, 189>> \o UTF8Encode(Tail(s))

\* fs.existsSync
existsSync(p) == p \in DOMAIN files \/ p \in dirs

\* fs.readFileSync(p, "utf-8")
readFileSync(p) == UTF8Decode(files[p])

\* The files after p is (re)written with bytes b / after p is unlinked.
WriteFile_Truncated(f, p, b) ==
    [t \in DOMAIN f \cup {p} |-> IF t = p THEN SubSeq(b, 1, Len(b) - 1) ELSE f[t]]
WriteFile(f, p, b) == [t \in DOMAIN f \cup {p} |-> IF t = p THEN b ELSE f[t]]
RemoveFile_Recursive(f, p) ==
    [t \in {u \in DOMAIN f : SubSeq(u, 1, Len(p) - 1) # dirname(p)} |-> f[t]]
RemoveFile(f, p) == [t \in DOMAIN f \ {p} |-> f[t]]

\* fs.readdirSync(d).length === 0, on the file system (f, ds, ts)
DirIsEmpty(d, f, ds, ts) ==
    /\ \A t \in DOMAIN f : dirname(t) # d
    /\ \A e \in ds : e = <<>> \/ dirname(e) # d
    /\ \A t \in ts : t.dir # d

\* cleanEmptyDirs(dirs): each directory of the list, in the list's order, is
\* removed when it exists and is empty at that moment.  The result is the set
\* of directories left.
RECURSIVE cleanEmptyDirs(_, _)
cleanEmptyDirs(list, ds) ==
    IF list = <<>> THEN ds
    ELSE LET dir == Head(list)
             left == IF dir \in ds /\ DirIsEmpty(dir, files, ds, tmps)
                     THEN ds \ {dir}
                     ELSE ds
         IN cleanEmptyDirs(Tail(list), left)

\* --------------------------------------------------------------------------
\* The installer: writeFilesWithRollback, rollbackFiles, writeFileSafe and
\* installDepsWithRollback.
\* --------------------------------------------------------------------------

VARIABLES
    pc,            \* where the installer is
    fileOps,       \* writeFilesWithRollback's arguments
    overwrite,
    idx,           \* the index of the file operation the loop is at
    written, skipped, overwritten,
    newFiles, backups, existingDirs, createdDirs,
    wfs,           \* writeFileSafe's frame
    rb,            \* rollbackFiles' frame
    caught,        \* the message of the error the catch block holds
    outcome,       \* how the last call ended
    thrown,        \* the message of the error the last call threw
    deps,          \* installDepsWithRollback's package list
    preFiles,      \* history: the file system when the call began
    preDirs,
    repeat,        \* history: the call repeats the file operations of the
                   \* call that returned just before it
    rollbackLog    \* history: the steps rollbackFiles has attempted

\* The dependency resolver (resolveRegistryDeps).
VARIABLES
    registry,      \* the items getItem finds, by name
    names,         \* the requested names
    resolveOutcome,\* "none" before the call, then "returned" or "threw"
    resolveResult  \* what the call left: the resolved list, the error, the lookups

resolverVars == <<registry, names, resolveOutcome, resolveResult>>

\* The bundler (createBundler) and the bundle loader (createRegistryLoader).
VARIABLES
    bundleFile,    \* the file at the bundle's path (outputPath, bundlePath)
    bundleTmp,     \* the file at outputPath + ".tmp"
    bpc,           \* where the bundler is
    bundlerRun,    \* the bundler's locals: items, extra, integrity, bundleJson
    built,         \* history: the bundle file is as the bundler wrote it
    registryJson,  \* the source definition the bundler reads (registry.json)
    sourceFiles,   \* the source files on the disk: path -> content
    bundlerConfig, \* the bundler's peerDeps and coreDeps
    bexit,         \* how the bundler's last run ended
    cached,        \* the loader's cache: empty, or the one bundle it holds
    loadResult,    \* what the last call of the loader returned or threw
    loadRead,      \* history: the last call of the loader read the file
    loadTick       \* history: flips at every call of the loader

sourceVars == <<registryJson, sourceFiles, bundlerConfig>>
bundlerVars == <<bundleFile, bundleTmp, bpc, bundlerRun, built, sourceVars, bexit>>
loaderVars == <<cached, loadResult, loadRead, loadTick>>
bundleVars == <<bundlerVars, loaderVars>>

\* The public registry (public/r), and the calls of the artifact pipeline.
VARIABLES
    publicRegistry,  \* the public artifact index, public/r/registry.json
    publicItemJson,  \* the per-item artifacts, public/r/<name>.json, by name
    hasLocalShadcn,  \* a local build binary is there
    ready,           \* the call of ensurePublicRegistryReady: outcome and builds
    fresh,           \* what the last call of validatePublicRegistryFresh did
    freshTick,       \* history: flips at every call of validatePublicRegistryFresh
    artifactRun      \* buildRegistryArtifacts' frame: where the call is, its
                     \* options and locals, and the disk when it began

publicDirVars == <<publicRegistry, publicItemJson>>
publicVars ==
    <<publicRegistry, publicItemJson, hasLocalShadcn, ready, fresh, freshTick, artifactRun>>

\* The inputs and the result of detectPackageManager, and the dry run.
VARIABLES
    packageManager,  \* package.json's packageManager field: none, or the one string
    userAgent,       \* process.env.npm_config_user_agent: none, or the one string
    lockMtimes,      \* the lock files in cwd: file -> mtime
    detected,        \* what detectPackageManager returned
    preview          \* what the last dry-run call reported

detectVars == <<packageManager, userAgent, lockMtimes, detected>>

\* One call of a function of the library that keeps no state: what it is
\* given and what it returns.
VARIABLES libArgs, libResult

libVars == <<libArgs, libResult>>
cliVars == <<detectVars, preview, libVars>>

\* What the installer's steps leave unchanged.
notInstallerVars == <<resolverVars, bundleVars, publicVars, cliVars>>

txVars == <<written, skipped, overwritten, newFiles, backups, existingDirs, createdDirs>>
argVars == <<fileOps, overwrite>>
histVars == <<preFiles, preDirs, repeat, rollbackLog>>
installerVars ==
    <<pc, fileOps, overwrite, idx, written, skipped, overwritten, newFiles,
      backups, existingDirs, createdDirs, wfs, rb, caught, outcome, thrown,
      deps, preFiles, preDirs, repeat, rollbackLog>>

\* A FileOp: its relativePath and installDir only label the log lines.
FileOp == [targetPath : Targets, content : OpContents]
FileOpLists == SeqsUpTo(FileOp, MaxOps)

\* The package lists installDepsWithRollback is given, and how the package
\* manager's child process may end (execFile with its 120 s timeout).
PackageLists == {<<>>, <<"clsx">>, <<"clsx", "bad name">>}
ExitStatuses == {"exit0", "nonzero", "timeout"}

\* validatePackageNames: VALID_PKG_NAME accepts the name of every package of
\* the list ("bad name" holds a space, which the pattern rejects).
validatePackageNames(ds) == \A i \in DOMAIN ds : ds[i] \in {"clsx"}

NoFrame == [filePath |-> <<>>, content |-> <<>>, overwrite |-> FALSE,
            exists |-> FALSE, caller |-> "none", result |-> "none", error |-> "",
            tmp |-> {}, rm |-> "none"]
NoRollback == [caller |-> "none", i |-> 0, rollbackFailed |-> FALSE]

\* The file systems a call may start from: the root exists, a directory
\* exists only inside an existing directory, a file only in an existing one.
InitFileSystems ==
    {fs \in [files : UNION {[S -> InitBytes] : S \in SUBSET Targets},
             dirs : SUBSET AllDirs] :
        /\ <<>> \in fs.dirs
        /\ \A d \in fs.dirs : Prefixes(d) \subseteq fs.dirs
        /\ \A t \in DOMAIN fs.files : dirname(t) \in fs.dirs}

\* The resolver before resolveRegistryDeps is called on an empty registry.
ResolverParked ==
    /\ registry = <<>> /\ names = <<>>
    /\ resolveOutcome = "none"
    /\ resolveResult = [resolved |-> <<>>, stack |-> <<>>, lookups |-> <<>>,
                        error |-> [kind |-> "none", path |-> <<>>, name |-> <<>>,
                                   requester |-> <<>>]]

\* JSON values: a string (s its text; the text "sha256-" + hex of a digest is
\* given by the content d that was hashed), an array (a its elements) or
\* undefined.  An object is the list of its members in the order JavaScript
\* keeps them (insertion order, for keys that are no integers).
JStr(text) == [t |-> "string", s |-> text, a |-> <<>>, d |-> <<>>]
JArr(elems) == [t |-> "array", s |-> "", a |-> elems, d |-> <<>>]
JUndefined == [t |-> "undefined", s |-> "", a |-> <<>>, d |-> <<>>]

\* A file that is not there, a file that is no JSON text, and the file that
\* holds the JSON text of an object.
AbsentFile == [kind |-> "absent", value |-> <<>>]
GarbageFile == [kind |-> "garbage", value |-> <<>>]
JsonFile(obj) == [kind |-> "json", value |-> obj]

\* The file a write has left when it stopped halfway: a proper prefix of a
\* JSON text, which is no JSON text.
TruncatedFile == [kind |-> "truncated", value |-> <<>>]

NoRun == [items |-> <<>>, extra |-> <<>>, integrity |-> JUndefined, bundleJson |-> AbsentFile]
NoLoad == [kind |-> "none", value |-> <<>>]

\* The bundler before any run and the loader before any call.
BundlerAtRest == bpc = "idle" /\ bundlerRun = NoRun /\ built = FALSE /\ bexit = "none"
LoaderAtRest ==
    cached = <<>> /\ loadResult = NoLoad /\ loadRead = FALSE /\ loadTick = FALSE

\* No source registry.
NoSource ==
    /\ registryJson = [kind |-> "absent", items |-> <<>>]
    /\ sourceFiles = <<>>
    /\ bundlerConfig = [peerDeps |-> {}, coreDeps |-> {}]

\* The names of the items of the public registry.
PublicNames == {<<"a">>, <<"b">>}

NoReady == [outcome |-> "none", builds |-> <<>>, error |-> ""]

\* No call of buildRegistryArtifacts.
NoArtifactRun == [pc |-> "none"]

\* No public registry, and no call of the artifact pipeline.
PublicParked ==
    /\ publicRegistry = [kind |-> "absent", items |-> <<>>]
    /\ publicItemJson = [n \in PublicNames |-> [kind |-> "absent", files |-> <<>>]]
    /\ hasLocalShadcn = FALSE
    /\ ready = NoReady /\ fresh = "none" /\ freshTick = FALSE
    /\ artifactRun = NoArtifactRun

NoPreview == [kind |-> "none", lines |-> <<>>]

\* No call of a stateless function.
LibParked == libArgs = <<>> /\ libResult = <<>>

\* No package.json, no user agent, no lock file, and no call.
CliParked ==
    /\ packageManager = <<>> /\ userAgent = <<>> /\ lockMtimes = <<>>
    /\ detected = "none" /\ preview = NoPreview
    /\ LibParked

\* The bundler and the loader before any run, with no bundle file.
BundleParked ==
    /\ bundleFile = AbsentFile /\ bundleTmp = AbsentFile
    /\ BundlerAtRest /\ LoaderAtRest /\ NoSource

InitInstaller ==
    /\ pc = "idle"
    /\ fileOps = <<>> /\ overwrite = FALSE
    /\ idx = 0
    /\ written = 0 /\ skipped = 0 /\ overwritten = 0
    /\ newFiles = <<>> /\ backups = <<>>
    /\ existingDirs = {} /\ createdDirs = <<>>
    /\ wfs = NoFrame /\ rb = NoRollback
    /\ caught = "" /\ outcome = "none" /\ thrown = <<>>
    /\ deps = <<>>
    /\ preFiles = files /\ preDirs = dirs /\ repeat = FALSE
    /\ rollbackLog = <<>>

Init ==
    /\ \E fs \in InitFileSystems : files = fs.files /\ dirs = fs.dirs
    /\ tmps = {}
    /\ InitInstaller
    /\ ResolverParked
    /\ BundleParked
    /\ PublicParked
    /\ CliParked

\* writeFilesWithRollback, lines 59-72: the call and its locals.
writeFilesWithRollback(ops, ow) ==
    /\ pc = "idle"
    /\ fileOps' = ops /\ overwrite' = ow
    /\ written' = 0 /\ skipped' = 0 /\ overwritten' = 0
    /\ newFiles' = <<>> /\ backups' = <<>>
    /\ existingDirs' = {d \in {dirname(ops[i].targetPath) : i \in DOMAIN ops} : existsSync(d)}
    /\ createdDirs' = <<>>
    /\ idx' = 1 /\ pc' = "loop"
    /\ wfs' = NoFrame /\ rb' = NoRollback
    /\ caught' = "" /\ outcome' = "none" /\ thrown' = <<>>
    /\ deps' = <<>>
    /\ preFiles' = files /\ preDirs' = dirs
    /\ repeat' = (outcome = "write-returned" /\ ops = fileOps)
    /\ rollbackLog' = <<>>
    /\ UNCHANGED <<fsVars, notInstallerVars>>

\* A loop that backs up every existing target.
NeedsBackup_Always(exists, ow) == exists

\* A loop that backs up nothing.
NeedsBackup_Never(exists, ow) == FALSE

\* writeFilesWithRollback, line 80: an existing target is backed up when
\* overwrite is set.
NeedsBackup(exists, ow) == exists /\ ow

\* The head of one loop iteration, lines 74-84: the directory is tracked, the
\* backup is captured (readFileSync may throw, and throws on a directory) and
\* writeFileSafe is called.
LoopOp ==
    /\ pc = "loop" /\ idx <= Len(fileOps)
    /\ LET op == fileOps[idx]
           dir == dirname(op.targetPath)
           needBackup == NeedsBackup(existsSync(op.targetPath), overwrite)
       IN /\ createdDirs' =
                IF dir \notin existingDirs /\ ~Includes(createdDirs, dir)
                THEN Append(createdDirs, dir)
                ELSE createdDirs
          /\ \/ /\ needBackup
                /\ caught' = "read failed"
                /\ pc' = "catch"
                /\ UNCHANGED <<backups, wfs>>
             \/ /\ needBackup => op.targetPath \in DOMAIN files
                /\ backups' =
                      IF needBackup
                      THEN Append(backups, [path |-> op.targetPath,
                                            content |-> readFileSync(op.targetPath)])
                      ELSE backups
                /\ wfs' = [filePath |-> op.targetPath, content |-> op.content,
                           overwrite |-> overwrite, exists |-> FALSE,
                           caller |-> "write", result |-> "none", error |-> "", tmp |-> {}, rm |-> "none"]
                /\ pc' = "writeFileSafe"
                /\ UNCHANGED caught
    /\ UNCHANGED <<fsVars, argVars, idx, written, skipped, overwritten, newFiles,
                   existingDirs, rb, outcome, thrown, deps, histVars, notInstallerVars>>

\* The loop is through, line 110: the result is returned.
LoopDone ==
    /\ pc = "loop" /\ idx > Len(fileOps)
    /\ pc' = "idle" /\ outcome' = "write-returned"
    /\ UNCHANGED <<fsVars, argVars, idx, txVars, wfs, rb, caught, thrown, deps, histVars, notInstallerVars>>

\* fs.mkdirSync(dir, {recursive: true}) creates the missing ancestors top
\* down: MkdirOutcomes are the directory sets it may leave, the whole path
\* when it succeeds (ok) and a shorter one when it throws on the way.
\* mkdirSync(dir, {recursive: true}) throws when dir or one of its ancestors
\* is a file.
FileInTheWay(dir) == Prefixes(dir) \cap DOMAIN files # {}

MkdirOutcomes(dir, ok) ==
    IF ok THEN {dirs \cup Prefixes(dir)}
    ELSE {dirs \cup Prefixes(SubSeq(dir, 1, k)) : k \in 0..(Len(dir) - 1)}

\* A writeFileSafe that skips nothing.
ShouldSkip_Never(exists, ow) == FALSE

\* writeFileSafe, line 204: an existing file is skipped unless overwrite is set.
ShouldSkip(exists, ow) == exists /\ ~ow

\* writeFileSafe, lines 202-209: the existence test, the skip, the mkdir.
\* mkdirSync is outside the try block, so its error leaves writeFileSafe at once.
writeFileSafeBegin ==
    /\ pc = "writeFileSafe"
    /\ LET exists == existsSync(wfs.filePath)
           dir == dirname(wfs.filePath)
       IN \/ /\ ShouldSkip(exists, wfs.overwrite)
             /\ wfs' = [wfs EXCEPT !.exists = exists, !.result = "skipped"]
             /\ pc' = "wfsReturn"
             /\ UNCHANGED dirs
          \/ /\ ~ShouldSkip(exists, wfs.overwrite)
             /\ ~FileInTheWay(dir)
             /\ dirs' \in MkdirOutcomes(dir, TRUE)
             /\ wfs' = [wfs EXCEPT !.exists = exists]
             /\ pc' = "wfsWriteTmp"
          \/ /\ ~ShouldSkip(exists, wfs.overwrite)
             /\ FileInTheWay(dir)
             /\ wfs' = [wfs EXCEPT !.exists = exists, !.result = "threw",
                                   !.error = "mkdir failed"]
             /\ pc' = "wfsReturn"
             /\ UNCHANGED dirs
          \/ /\ ~ShouldSkip(exists, wfs.overwrite)
             /\ ~FileInTheWay(dir)
             /\ dir \notin dirs
             /\ dirs' \in MkdirOutcomes(dir, FALSE)
             /\ wfs' = [wfs EXCEPT !.exists = exists, !.result = "threw",
                                   !.error = "mkdir failed"]
             /\ pc' = "wfsReturn"
    /\ UNCHANGED <<files, tmps, argVars, idx, txVars, rb, caught, outcome, thrown, deps, histVars, notInstallerVars>>

\* What a writeFileSync that fails may leave of the bytes b: nothing, or a
\* file holding a proper prefix of them.
PartialWrites(dir, b) ==
    {{}} \cup {{[dir |-> dir, bytes |-> SubSeq(b, 1, k)]} : k \in 0..(Len(b) - 1)}

\* writeFileSafe, lines 211-213: the temporary file is written.
writeFileSafeWriteTmp ==
    /\ pc = "wfsWriteTmp"
    /\ LET dir == dirname(wfs.filePath)
           bytes == UTF8Encode(wfs.content)
       IN \/ /\ tmps' = tmps \cup {[dir |-> dir, bytes |-> bytes]}
             /\ wfs' = [wfs EXCEPT !.tmp = {[dir |-> dir, bytes |-> bytes]}]
             /\ pc' = "wfsRename"
          \/ /\ \E left \in PartialWrites(dir, bytes) :
                   /\ tmps' = tmps \cup left
                   /\ wfs' = [wfs EXCEPT !.error = "write failed", !.tmp = left]
             /\ pc' = "wfsCatch"
    /\ UNCHANGED <<files, dirs, argVars, idx, txVars, rb, caught, outcome, thrown, deps, histVars, notInstallerVars>>

\* writeFileSafe, lines 214 and 220: the rename puts the temporary file in
\* the target's place; onto a directory it fails.
writeFileSafeRename ==
    /\ pc = "wfsRename"
    /\ \/ /\ wfs.filePath \notin dirs
          /\ \E t \in wfs.tmp : files' = WriteFile(files, wfs.filePath, t.bytes)
          /\ tmps' = tmps \ wfs.tmp
          /\ wfs' = [wfs EXCEPT !.result = IF wfs.exists THEN "overwritten" ELSE "written"]
          /\ pc' = "wfsReturn"
       \/ /\ wfs' = [wfs EXCEPT !.error = "rename failed"]
          /\ pc' = "wfsCatch"
          /\ UNCHANGED <<files, tmps>>
    /\ UNCHANGED <<dirs, argVars, idx, txVars, rb, caught, outcome, thrown, deps, histVars, notInstallerVars>>

\* How rmSync on the temporary file can end.
RmStatuses == {"removed", "failed"}

\* writeFileSafe, line 216: try { rmSync(tmpPath) } catch {}.  The temporary
\* file tmp of the call is removed, or rmSync fails, the error is swallowed
\* and the file stays.
RmTmp(all, tmp, rm) == IF rm = "removed" THEN all \ tmp ELSE all

\* writeFileSafe, lines 215-218: the removal of the temporary file is tried
\* and the error thrown again.
writeFileSafeCatch(rm) ==
    /\ pc = "wfsCatch"
    /\ tmps' = RmTmp(tmps, wfs.tmp, rm)
    /\ wfs' = [wfs EXCEPT !.result = "threw", !.rm = rm]
    /\ pc' = "wfsReturn"
    /\ UNCHANGED <<files, dirs, argVars, idx, txVars, rb, caught, outcome, thrown, deps, histVars, notInstallerVars>>

\* writeFilesWithRollback, lines 84-102: writeFileSafe is back in the loop.
LoopAfterWrite ==
    /\ pc = "wfsReturn" /\ wfs.caller = "write"
    /\ LET path == wfs.filePath
       IN \/ /\ wfs.result = "written"
             /\ newFiles' = Append(newFiles, path)
             /\ written' = written + 1
             /\ idx' = idx + 1 /\ pc' = "loop"
             /\ UNCHANGED <<skipped, overwritten, caught>>
          \/ /\ wfs.result = "skipped"
             /\ skipped' = skipped + 1
             /\ idx' = idx + 1 /\ pc' = "loop"
             /\ UNCHANGED <<written, overwritten, newFiles, caught>>
          \/ /\ wfs.result = "overwritten"
             /\ overwritten' = overwritten + 1
             /\ idx' = idx + 1 /\ pc' = "loop"
             /\ UNCHANGED <<written, skipped, newFiles, caught>>
          \/ /\ wfs.result = "threw"
             /\ caught' = wfs.error
             /\ pc' = "catch"
             /\ UNCHANGED <<idx, written, skipped, overwritten, newFiles>>
    /\ wfs' = NoFrame
    /\ UNCHANGED <<fsVars, argVars, backups, existingDirs, createdDirs, rb,
                   outcome, thrown, deps, histVars, notInstallerVars>>

\* writeFilesWithRollback, lines 102-108: the catch block rolls back when
\* something was written or backed up, and throws the wrapping error.
Catch ==
    /\ pc = "catch"
    /\ \/ /\ newFiles # <<>> \/ backups # <<>>
          /\ rb' = [caller |-> "write", i |-> 1, rollbackFailed |-> FALSE]
          /\ pc' = "rollbackRestore"
          /\ UNCHANGED <<outcome, thrown>>
       \/ /\ ~(newFiles # <<>> \/ backups # <<>>)
          /\ thrown' = <<"Failed to write files: ", caught>>
          /\ outcome' = "write-threw"
          /\ pc' = "idle"
          /\ UNCHANGED rb
    /\ UNCHANGED <<fsVars, argVars, idx, txVars, wfs, caught, deps, histVars, notInstallerVars>>

\* A rollback that gives up at the first step that fails.
NextIndex_Abort(i, n, threw) == IF threw THEN n + 1 ELSE i + 1

\* rollbackFiles, lines 28-31 and 37-40: the catch block swallows the error
\* of entry i of n, and the loop goes on with the next entry.
NextIndex(i, n, threw) == i + 1

\* rollbackFiles, lines 25-27: the next backup is restored by writeFileSafe.
rollbackRestore ==
    /\ pc = "rollbackRestore"
    /\ \/ /\ rb.i <= Len(backups)
          /\ wfs' = [filePath |-> backups[rb.i].path, content |-> backups[rb.i].content,
                     overwrite |-> TRUE, exists |-> FALSE,
                     caller |-> "restore", result |-> "none", error |-> "", tmp |-> {}, rm |-> "none"]
          /\ pc' = "writeFileSafe"
          /\ UNCHANGED rb
       \/ /\ rb.i > Len(backups)
          /\ rb' = [rb EXCEPT !.i = 1]
          /\ pc' = "rollbackDelete"
          /\ UNCHANGED wfs
    /\ UNCHANGED <<fsVars, argVars, idx, txVars, caught, outcome, thrown, deps, histVars, notInstallerVars>>

\* rollbackFiles, lines 26-31: writeFileSafe is back; its error is caught.
rollbackAfterRestore ==
    /\ pc = "wfsReturn" /\ wfs.caller = "restore"
    /\ rb' = [rb EXCEPT !.i = NextIndex(rb.i, Len(backups), wfs.result = "threw"),
                        !.rollbackFailed = rb.rollbackFailed \/ wfs.result = "threw"]
    /\ rollbackLog' = Append(rollbackLog, [step |-> "restore", i |-> rb.i,
                                           ok |-> wfs.result # "threw"])
    /\ wfs' = NoFrame
    /\ pc' = "rollbackRestore"
    /\ UNCHANGED <<fsVars, argVars, idx, txVars, caught, outcome, thrown, deps,
                   preFiles, preDirs, repeat, notInstallerVars>>

\* rollbackFiles, lines 34-41: rmSync on the next new file; rmSync throws when
\* the file is not there, and may fail otherwise.
rollbackDelete ==
    /\ pc = "rollbackDelete" /\ rb.i <= Len(newFiles)
    /\ LET file == newFiles[rb.i]
       IN \/ /\ file \in DOMAIN files
             /\ files' = RemoveFile(files, file)
             /\ rb' = [rb EXCEPT !.i = NextIndex(rb.i, Len(newFiles), FALSE)]
             /\ rollbackLog' = Append(rollbackLog, [step |-> "delete", i |-> rb.i, ok |-> TRUE])
          \/ /\ rb' = [rb EXCEPT !.i = NextIndex(rb.i, Len(newFiles), TRUE),
                                  !.rollbackFailed = TRUE]
             /\ rollbackLog' = Append(rollbackLog, [step |-> "delete", i |-> rb.i, ok |-> FALSE])
             /\ UNCHANGED files
    /\ UNCHANGED <<dirs, tmps, argVars, idx, txVars, wfs, pc, caught, outcome, thrown,
                   deps, preFiles, preDirs, repeat, notInstallerVars>>

\* rollbackFiles, lines 43-48, and the throw that follows its return (line 107
\* of writeFilesWithRollback, line 156 of installDepsWithRollback).
\* createdDirs.reverse() reverses the caller's array in place.
rollbackCleanDirs ==
    /\ pc = "rollbackDelete" /\ rb.i > Len(newFiles)
    /\ createdDirs' = Reverse(createdDirs)
    /\ dirs' = cleanEmptyDirs(Reverse(createdDirs), dirs)
    /\ \/ /\ rb.caller = "write"
          /\ thrown' = <<"Failed to write files: ", caught>>
          /\ outcome' = "write-threw"
       \/ /\ rb.caller = "install"
          /\ thrown' = <<"Dependency installation failed.">>
          /\ outcome' = "install-threw"
    /\ rollbackLog' = Append(rollbackLog, [step |-> "clean", i |-> 0, ok |-> TRUE])
    /\ pc' = "idle"
    /\ UNCHANGED <<files, tmps, argVars, idx, written, skipped, overwritten, newFiles,
                   backups, existingDirs, wfs, rb, caught, deps, preFiles, preDirs,
                   repeat, notInstallerVars>>

\* installDepsWithRollback, lines 143-152: nothing to install, or the package
\* manager is started and awaited.
installDepsWithRollback(ds) ==
    /\ pc = "idle" /\ outcome = "write-returned"
    /\ deps' = ds
    /\ \/ /\ ds = <<>>
          /\ outcome' = "install-returned"
          /\ UNCHANGED pc
       \/ /\ ds # <<>>
          /\ pc' = "awaitInstall"
          /\ UNCHANGED outcome
    /\ UNCHANGED <<fsVars, argVars, idx, txVars, wfs, rb, caught, thrown, histVars, notInstallerVars>>

\* installDepsWithSpinner, lines 160-195, over installDeps: true when the
\* names are valid and the child process exits with 0, false on every error.
installDepsWithSpinner(ds, exit) == validatePackageNames(ds) /\ exit = "exit0"

\* installDepsWithRollback, lines 152-157: the install has settled.
installSettled(exit) ==
    /\ pc = "awaitInstall"
    /\ \/ /\ installDepsWithSpinner(deps, exit)
          /\ outcome' = "install-returned"
          /\ pc' = "idle"
          /\ UNCHANGED rb
       \/ /\ ~installDepsWithSpinner(deps, exit)
          /\ rb' = [caller |-> "install", i |-> 1, rollbackFailed |-> FALSE]
          /\ pc' = "rollbackRestore"
          /\ UNCHANGED outcome
    /\ UNCHANGED <<fsVars, argVars, idx, txVars, wfs, caught, thrown, deps, histVars, notInstallerVars>>

\* Inside the installer the removal of a temporary file goes through; the
\* calls where it fails are followed in SpecWrite.
Next ==
    \/ \E ops \in FileOpLists, ow \in BOOLEAN : writeFilesWithRollback(ops, ow)
    \/ LoopOp
    \/ LoopDone
    \/ writeFileSafeBegin
    \/ writeFileSafeWriteTmp
    \/ writeFileSafeRename
    \/ writeFileSafeCatch("removed")
    \/ LoopAfterWrite
    \/ Catch
    \/ rollbackRestore
    \/ rollbackAfterRestore
    \/ rollbackDelete
    \/ rollbackCleanDirs
    \/ \E ds \in PackageLists : installDepsWithRollback(ds)
    \/ \E exit \in ExitStatuses : installSettled(exit)

vars == <<files, dirs, tmps, installerVars, resolverVars, bundleVars, publicVars, cliVars>>

Spec == Init /\ [][Next]_vars

\* The installer at rest on an empty file system.
InstallerParked ==
    /\ files = <<>> /\ dirs = {<<>>} /\ tmps = {}
    /\ InitInstaller

\* --------------------------------------------------------------------------
\* writeFileSafe called on its own
\* --------------------------------------------------------------------------

\* One call of writeFileSafe(filePath, content, overwrite), lines 197-201.
writeFileSafe(filePath, content, ow) ==
    /\ pc = "idle"
    /\ wfs' = [filePath |-> filePath, content |-> content, overwrite |-> ow,
               exists |-> FALSE, caller |-> "direct", result |-> "none",
               error |-> "", tmp |-> {}, rm |-> "none"]
    /\ pc' = "writeFileSafe"
    /\ preFiles' = files /\ preDirs' = dirs
    /\ UNCHANGED <<fsVars, argVars, idx, txVars, rb, caught, outcome, thrown, deps,
                   repeat, rollbackLog, notInstallerVars>>

\* The call is over: the frame keeps what it returned or threw.
writeFileSafeReturn ==
    /\ pc = "wfsReturn" /\ wfs.caller = "direct"
    /\ pc' = "idle"
    /\ UNCHANGED <<fsVars, argVars, idx, txVars, wfs, rb, caught, outcome, thrown, deps,
                   histVars, notInstallerVars>>

InitWrite == Init

NextWrite ==
    \/ \E p \in Targets, c \in OpContents, ow \in BOOLEAN : writeFileSafe(p, c, ow)
    \/ writeFileSafeBegin
    \/ writeFileSafeWriteTmp
    \/ writeFileSafeRename
    \/ \E rm \in RmStatuses : writeFileSafeCatch(rm)
    \/ writeFileSafeReturn

SpecWrite == InitWrite /\ [][NextWrite]_vars

\* --------------------------------------------------------------------------
\* The dependency resolver: resolveRegistryDeps over a registry.  A name is
\* the sequence of its characters.
\* --------------------------------------------------------------------------

Http == <<"h", "t", "t", "p", ":", "/", "/">>
Https == <<"h", "t", "t", "p", "s", ":", "/", "/">>

\* The item names, in a fixed order, and the cross-registry references.
ItemNames == <<<<"a">>, <<"b">>, <<"c">>>>
Items == Range(ItemNames)
UrlRefs == {Http \o <<"x">>, Https \o <<"y">>}
Refs == Items \cup UrlRefs

\* String.prototype.startsWith
startsWith(str, prefix) ==
    Len(str) >= Len(prefix) /\ SubSeq(str, 1, Len(prefix)) = prefix

\* Array.prototype.indexOf, counting from 1: 0 when x is not in s.
IndexOf(s, x) ==
    IF Includes(s, x) THEN CHOOSE i \in DOMAIN s : s[i] = x /\ \A j \in 1..(i - 1) : s[j] # x
    ELSE 0

\* Set.prototype.add on a Set kept in insertion order.
SetAdd(s, x) == IF Includes(s, x) THEN s ELSE Append(s, x)

NoError == [kind |-> "none", path |-> <<>>, name |-> <<>>, requester |-> <<>>]

\* A walk that skips the http:// references only.
IsSkippedDep_HttpOnly(dep) == startsWith(dep, Http)

\* A walk that reports the whole stack as the cycle.
CyclePath_WholeStack(stack, cycleStart, name) == stack \o <<name>>

\* A walk that names the bottom of the stack as the requester.
Requester_Bottom(stack) == IF Len(stack) > 0 THEN <<stack[1]>> ELSE <<>>

\* walk, line 239: the dependency is a URL and is skipped.
IsSkippedDep(dep) == startsWith(dep, Http) \/ startsWith(dep, Https)

\* walk, lines 224-227: the cycle the error reports.
CyclePath(stack, cycleStart, name) ==
    SubSeq(stack, cycleStart, Len(stack)) \o <<name>>

\* walk, line 232: the requester the missing-dependency error names.
Requester(stack) == IF Len(stack) > 0 THEN <<stack[Len(stack)]>> ELSE <<>>

\* A walk that never finds a name resolved already.
AlreadyResolved_Never(resolved, name) == FALSE

\* walk, line 222: resolved.has(name).
AlreadyResolved(resolved, name) == Includes(resolved, name)

\* walk(name), lines 221-244, on the state st of the enclosing call (resolved,
\* stack, and the log of getItem calls); an error, once thrown, ends every
\* enclosing walk.  walkDeps is the for loop of lines 237-241 from entry i on.
RECURSIVE walk(_, _, _), walkDeps(_, _, _, _)
walk(reg, st, name) ==
    IF st.error.kind # "none" THEN st
    ELSE IF AlreadyResolved(st.resolved, name) THEN st
    ELSE LET cycleStart == IndexOf(st.stack, name)
         IN IF cycleStart # 0
            THEN [st EXCEPT !.error = [NoError EXCEPT !.kind = "circular",
                                          !.path = CyclePath(st.stack, cycleStart, name)]]
            ELSE LET looked == [st EXCEPT !.lookups = Append(@, name)]
                 IN IF name \notin DOMAIN reg
                    THEN [looked EXCEPT !.error = [NoError EXCEPT !.kind = "missing",
                                                      !.name = name,
                                                      !.requester = Requester(st.stack)]]
                    ELSE LET pushed == [looked EXCEPT !.stack = Append(@, name)]
                             after == walkDeps(reg, pushed, reg[name].registryDependencies, 1)
                         IN IF after.error.kind # "none" THEN after
                            ELSE [after EXCEPT
                                    !.stack = SubSeq(@, 1, Len(@) - 1),
                                    !.resolved = SetAdd(@, name)]

walkDeps(reg, st, ds, i) ==
    IF i > Len(ds) \/ st.error.kind # "none" THEN st
    ELSE IF IsSkippedDep(ds[i]) THEN walkDeps(reg, st, ds, i + 1)
    ELSE walkDeps(reg, walk(reg, st, ds[i]), ds, i + 1)

\* resolveRegistryDeps, lines 213-250: walk on every requested name in turn.
RECURSIVE walkNames(_, _, _, _)
walkNames(reg, st, ns, i) ==
    IF i > Len(ns) \/ st.error.kind # "none" THEN st
    ELSE walkNames(reg, walk(reg, st, ns[i]), ns, i + 1)

resolveRegistryDeps(ns, reg) ==
    walkNames(reg, [resolved |-> <<>>, stack |-> <<>>, lookups |-> <<>>, error |-> NoError],
              ns, 1)

\* The registries: every item that is present has a list of references.
\* A registry is drawn as the list of its edges, item by item.
EdgeLists ==
    {es \in SeqsUpTo(Items \X Refs, MaxEdges) :
        \A i, j \in DOMAIN es :
            i < j => IndexOf(ItemNames, es[i][1]) <= IndexOf(ItemNames, es[j][1])}

RECURSIVE DepsIn(_, _)
DepsIn(es, n) ==
    IF es = <<>> THEN <<>>
    ELSE IF Head(es)[1] = n THEN <<Head(es)[2]>> \o DepsIn(Tail(es), n)
    ELSE DepsIn(Tail(es), n)

RegistryOf(present, es) ==
    [n \in present |-> [name |-> n, registryDependencies |-> DepsIn(es, n)]]

InitResolver ==
    /\ \E es \in EdgeLists, present \in SUBSET Items :
          /\ \A i \in DOMAIN es : es[i][1] \in present
          /\ registry = RegistryOf(present, es)
    /\ names \in SeqsUpTo(Items, MaxNames)
    /\ resolveOutcome = "none"
    /\ resolveResult = [resolved |-> <<>>, stack |-> <<>>, lookups |-> <<>>, error |-> NoError]

\* One call of resolveRegistryDeps(names, getItem).
Resolve ==
    /\ resolveOutcome = "none"
    /\ resolveResult' = resolveRegistryDeps(names, registry)
    /\ resolveOutcome' = IF resolveResult'.error.kind = "none" THEN "returned" ELSE "threw"
    /\ UNCHANGED <<registry, names, fsVars, installerVars, bundleVars, publicVars, cliVars>>

InitResolve == InstallerParked /\ InitResolver /\ BundleParked /\ PublicParked /\ CliParked

NextResolve == Resolve

SpecResolve == InitResolve /\ [][NextResolve]_vars

\* --------------------------------------------------------------------------
\* The bundler's last steps (createBundler, lines 231-245) and the loader
\* (createRegistryLoader).
\* --------------------------------------------------------------------------

HasKey(obj, k) == \E i \in DOMAIN obj : obj[i].k = k
Get(obj, k) == obj[CHOOSE i \in DOMAIN obj : obj[i].k = k].v

\* obj[k] = v on an object: an existing member keeps its place.
SetKey(obj, k, v) ==
    IF HasKey(obj, k)
    THEN [i \in DOMAIN obj |-> IF obj[i].k = k THEN [k |-> k, v |-> v] ELSE obj[i]]
    ELSE Append(obj, [k |-> k, v |-> v])

\* {...obj, ...more}: the members of more are set on obj in their order.
RECURSIVE Spread(_, _)
Spread(obj, more) ==
    IF more = <<>> THEN obj
    ELSE Spread(SetKey(obj, Head(more).k, Head(more).v), Tail(more))

\* The object without its member k.
RECURSIVE Omit(_, _)
Omit(obj, k) ==
    IF obj = <<>> THEN <<>>
    ELSE IF Head(obj).k = k THEN Omit(Tail(obj), k)
    ELSE <<Head(obj)>> \o Omit(Tail(obj), k)

\* JSON.stringify of an object: its members in order, those whose value is
\* undefined left out.
RECURSIVE JSONstringify(_)
JSONstringify(obj) ==
    IF obj = <<>> THEN <<>>
    ELSE IF Head(obj).v.t = "undefined" THEN JSONstringify(Tail(obj))
    ELSE <<Head(obj)>> \o JSONstringify(Tail(obj))

\* "sha256-" + createHash("sha256").update(content).digest("hex"): the
\* digest is given by the content (no collisions).
Sha256Integrity(content) == [t |-> "string", s |-> "sha256-", a |-> <<>>, d |-> <<content>>]

\* Package names and import specifiers are strings, kept as the list of their
\* tokens: "@radix-ui/react-slot" is <<"@", "radix-ui", "/", "react-slot">>.
React == <<"react">>
ReactDom == <<"react-dom">>
Clsx == <<"clsx">>
Zod == <<"zod">>
RadixSlot == <<"@", "radix-ui", "/", "react-slot">>

DEFAULT_PEER_DEPS == {React, ReactDom}
DEFAULT_ALIAS_PREFIXES == <<<<"@", "/">>, <<".", "/">>, <<"..", "/">>, <<"node:">>>>

\* new Set(seq) and set.add on a Set kept in insertion order.
RECURSIVE AddAll(_, _)
AddAll(set, seq) ==
    IF seq = <<>> THEN set ELSE AddAll(SetAdd(set, Head(seq)), Tail(seq))

\* str.split("/")
RECURSIVE SplitSlash(_)
SplitSlash(str) ==
    IF \A i \in DOMAIN str : str[i] # "/" THEN <<str>>
    ELSE LET k == CHOOSE i \in DOMAIN str :
                      str[i] = "/" /\ \A j \in 1..(i - 1) : str[j] # "/"
         IN <<SubSeq(str, 1, k - 1)>> \o SplitSlash(SubSeq(str, k + 1, Len(str)))

\* A detection that takes the first part of every specifier.
PackageName_FirstPart(pkg) == SplitSlash(pkg)[1]

\* detectNpmImports, lines 37-38: the package an import specifier names.
PackageName(pkg) ==
    LET parts == SplitSlash(pkg)
    IN IF startsWith(pkg, <<"@">>)
       THEN parts[1] \o <<"/">> \o (IF Len(parts) >= 2 THEN parts[2] ELSE <<"undefined">>)
       ELSE parts[1]

\* detectNpmImports, lines 27-40, over the lines of a content.  A line is
\* given by what the three patterns see of it: its head ("import type" and
\* "export type" for the lines the first two patterns match) and the
\* specifier of its from clause, when it has one.
RECURSIVE DetectLines(_, _, _)
DetectLines(lines, peerDeps, aliasPrefixes) ==
    IF lines = <<>> THEN <<>>
    ELSE LET line == Head(lines)
             rest == DetectLines(Tail(lines), peerDeps, aliasPrefixes)
         IN IF line.head \in {"import type", "export type"} THEN rest
            ELSE IF line.from = <<>> THEN rest
            ELSE IF \E i \in DOMAIN aliasPrefixes : startsWith(line.from[1], aliasPrefixes[i])
                 THEN rest
            ELSE IF PackageName(line.from[1]) \in peerDeps THEN rest
            ELSE <<PackageName(line.from[1])>> \o rest

\* detectNpmImports, lines 19-43.
detectNpmImports(content, peerDeps, aliasPrefixes) ==
    AddAll(<<>>, DetectLines(content, peerDeps, aliasPrefixes))

\* Two source files.
Content1 ==
    <<[head |-> "import", from |-> <<React>>],
      [head |-> "import type", from |-> <<<<"type-fest">>>>],
      [head |-> "import", from |-> <<RadixSlot \o <<"/", "sub">>>>],
      [head |-> "import", from |-> <<<<"@", "/", "lib", "/", "utils">>>>],
      [head |-> "import", from |-> <<Clsx>>],
      [head |-> "import", from |-> <<Clsx \o <<"/", "lite">>>>]>>
Content2 ==
    <<[head |-> "import", from |-> <<>>],
      [head |-> "export type", from |-> <<Clsx>>],
      [head |-> "export", from |-> <<Zod>>],
      [head |-> "other", from |-> <<<<".", "/", "local">>>>]>>

\* ---- detectNpmImports on the text of a file ----

\* A line of a source file is the list of its tokens: a word or a run of
\* one white-space character is [w |-> its text], a string literal is
\* [lit |-> the string between the quotes].
Word(text) == [w |-> text]
WS == Word(" ")
Lit(str) == [lit |-> str]
IsLit(tok) == "lit" \in DOMAIN tok

\* The first position from i on that holds no white space (Len + 1 if none).
RECURSIVE SkipWs(_, _)
SkipWs(line, i) ==
    IF i > Len(line) \/ line[i] # WS THEN i ELSE SkipWs(line, i + 1)

\* detectNpmImports, lines 28-29: /^\s*import\s+type\s/ and
\* /^\s*export\s+type\s/ (kw is "import" or "export").
TypeOnlyPattern(line, kw) ==
    LET i == SkipWs(line, 1)
        j == SkipWs(line, i + 1)
    IN /\ i <= Len(line) /\ line[i] = Word(kw)
       /\ j > i + 1
       /\ j + 1 <= Len(line) /\ line[j] = Word("type") /\ line[j + 1] = WS

\* detectNpmImports, line 31: /from\s+["']([^"']+)["']/.exec(line), the
\* leftmost match; <<>> without a match, else the one string captured.
FromPattern(line) ==
    LET hits == {i \in DOMAIN line :
                    /\ line[i] = Word("from")
                    /\ SkipWs(line, i + 1) > i + 1
                    /\ SkipWs(line, i + 1) <= Len(line)
                    /\ IsLit(line[SkipWs(line, i + 1)])
                    /\ line[SkipWs(line, i + 1)].lit # <<>>}
    IN IF hits = {} THEN <<>>
       ELSE LET first == CHOOSE i \in hits : \A k \in hits : i <= k
            IN <<line[SkipWs(line, first + 1)].lit>>

\* What the three patterns see of a line.
SeenOf(line) ==
    [head |-> IF TypeOnlyPattern(line, "import") THEN "import type"
              ELSE IF TypeOnlyPattern(line, "export") THEN "export type"
              ELSE "other",
     from |-> FromPattern(line)]

\* An import specifier, by its parts: an alias or a relative prefix (or
\* none), the scope (or none), the package and the path below it (or none).
SpecifierText(sp) ==
    sp.prefix
    \o (IF sp.scope = <<>> THEN <<>> ELSE <<"@", sp.scope[1], "/">>)
    \o <<sp.pkg>>
    \o (IF sp.sub = <<>> THEN <<>> ELSE <<"/", sp.sub[1]>>)

\* The text of a line, by what the line is: an import or an export
\* (keyword), type-only or not, with a from clause or a bare string (a
\* side-effect import), behind some white space or none.
LineText(ln) ==
    (IF ln.indent THEN <<WS>> ELSE <<>>)
    \o <<Word(ln.keyword)>>
    \o (IF ln.typeOnly THEN <<WS, WS, Word("type")>> ELSE <<>>)
    \o (IF ln.clause THEN <<WS, Word("{x}"), WS, Word("from")>> ELSE <<>>)
    \o <<WS, Lit(SpecifierText(ln.specifier))>>

\* The specifiers and the lines the files are made of.
Specifiers ==
    {[prefix |-> <<>>, scope |-> <<>>, pkg |-> "clsx", sub |-> <<"lite">>],
     [prefix |-> <<>>, scope |-> <<"radix-ui">>, pkg |-> "react-slot", sub |-> <<"sub">>],
     [prefix |-> <<>>, scope |-> <<"radix-ui">>, pkg |-> "react-slot", sub |-> <<>>],
     [prefix |-> <<>>, scope |-> <<>>, pkg |-> "react", sub |-> <<"jsx-runtime">>],
     [prefix |-> <<"@", "/">>, scope |-> <<>>, pkg |-> "lib", sub |-> <<"utils">>],
     [prefix |-> <<".", "/">>, scope |-> <<>>, pkg |-> "local", sub |-> <<>>],
     [prefix |-> <<"node:">>, scope |-> <<>>, pkg |-> "fs", sub |-> <<>>],
     [prefix |-> <<"~", "/">>, scope |-> <<>>, pkg |-> "app", sub |-> <<>>]}

SourceLines ==
    {ln \in [indent : BOOLEAN, keyword : {"import", "export"}, typeOnly : BOOLEAN,
             clause : BOOLEAN, specifier : Specifiers] :
        /\ ln.typeOnly => ln.clause
        /\ ln.indent => ln.typeOnly
        /\ ~ln.clause => ln.keyword = "import"}

\* The options: each one is left out (<<>>) or given.
ImportOptions ==
    [peerDeps : {<<>>, <<{Clsx}>>}, aliasPrefixes : {<<>>, <<<<<<"~", "/">>>>>>}]

\* detectNpmImports, lines 23-24: options?.x ?? DEFAULT.
OrDefault(opt, default) == IF opt = <<>> THEN default ELSE opt[1]

InitImports ==
    /\ InstallerParked /\ ResolverParked /\ BundleParked /\ PublicParked
    /\ packageManager = <<>> /\ userAgent = <<>> /\ lockMtimes = <<>>
    /\ detected = "none" /\ preview = NoPreview
    /\ libArgs \in [content : SeqsUpTo(SourceLines, MaxLines), options : ImportOptions]
    /\ libResult = <<>>

\* One call of detectNpmImports(content, options) on the text of the lines.
DetectImports ==
    /\ libResult = <<>>
    /\ libResult' =
          <<detectNpmImports([i \in DOMAIN libArgs.content |->
                                 SeenOf(LineText(libArgs.content[i]))],
                             OrDefault(libArgs.options.peerDeps, DEFAULT_PEER_DEPS),
                             OrDefault(libArgs.options.aliasPrefixes,
                                       DEFAULT_ALIAS_PREFIXES))>>
    /\ UNCHANGED <<libArgs, detectVars, preview, fsVars, installerVars, resolverVars,
                   bundleVars, publicVars>>

NextImports == DetectImports

SpecImports == InitImports /\ [][NextImports]_vars

\* A reference in the explicit namespace syntax.
NamespacedRefs == {<<"@", "n", "/", "a">>}

\* parseRegistryDependencyRef: a URL and a namespaced reference are
\* cross-registry references, every other reference is a local name.
parseRegistryDependencyRef(dep) ==
    [kind |-> IF startsWith(dep, Http) \/ startsWith(dep, Https) THEN "url"
              ELSE IF dep \in NamespacedRefs THEN "namespace"
              ELSE "local",
     name |-> dep]

\* RegistrySourceItemSchema, lines 54-63: an optional array (empty when it is
\* left out, else the one list) gets its default.
RegistrySourceItemSchema(raw) ==
    [name |-> raw.name,
     dependencies |-> IF raw.dependencies = <<>> THEN <<>> ELSE raw.dependencies[1],
     registryDependencies |->
         IF raw.registryDependencies = <<>> THEN <<>> ELSE raw.registryDependencies[1],
     files |-> raw.files]

\* A bundler that accepts items of the same name.
DuplicateNames_None(items) == FALSE

\* createBundler, lines 166-173: two items have the same name.
DuplicateNames(items) ==
    \E i, j \in DOMAIN items : i < j /\ items[i].name = items[j].name

\* createBundler, lines 176-185: a local registryDependency names no item.
MissingLocalDependency(items) ==
    \E i \in DOMAIN items : \E k \in DOMAIN items[i].registryDependencies :
        LET parsed == parseRegistryDependencyRef(items[i].registryDependencies[k])
        IN /\ parsed.kind = "local"
           /\ \A j \in DOMAIN items : items[j].name # parsed.name

\* createBundler, lines 194-200: a declared file is not on the disk.
MissingFile(items, disk) ==
    \E i \in DOMAIN items : \E k \in DOMAIN items[i].files :
        items[i].files[k] \notin DOMAIN disk

\* createBundler, lines 139-200: the first check that fails, in the order of
\* the code ("none" when the run goes on to line 231).
SourceFailure(def, disk) ==
    IF def.kind = "absent" THEN "not found"
    ELSE IF def.kind = "garbage" THEN "parse"
    ELSE IF def.kind = "invalid" THEN "schema"
    ELSE LET items == [i \in DOMAIN def.items |-> RegistrySourceItemSchema(def.items[i])]
         IN IF DuplicateNames(items) THEN "duplicate"
            ELSE IF MissingLocalDependency(items) THEN "dependency"
            ELSE IF MissingFile(items, disk) THEN "file"
            ELSE "none"

\* createBundler, lines 192-213: the dependencies of an item: the declared
\* ones, then the ones detected file by file, without the core ones.
RECURSIVE DetectedDeps(_, _, _, _)
DetectedDeps(all, paths, disk, config) ==
    IF paths = <<>> THEN all
    ELSE DetectedDeps(AddAll(all, detectNpmImports(disk[Head(paths)], config.peerDeps,
                                                   DEFAULT_ALIAS_PREFIXES)),
                      Tail(paths), disk, config)

ItemDependencies(item, disk, config) ==
    LET allDetectedDeps == DetectedDeps(AddAll(<<>>, item.dependencies), item.files, disk, config)
        isNotCore(d) == d \notin config.coreDeps
    IN SelectSeq(allDetectedDeps, isNotCore)

\* createBundler, lines 188-229: the bundle items.
BundleItems(items, disk, config) ==
    [i \in DOMAIN items |->
        [name |-> items[i].name,
         dependencies |-> ItemDependencies(items[i], disk, config),
         registryDependencies |-> items[i].registryDependencies,
         files |-> [k \in DOMAIN items[i].files |->
                      [path |-> items[i].files[k], content |-> disk[items[i].files[k]]]]]]

\* A bundle item of that name, with nothing else.
BundleItemNamed(name) ==
    [name |-> name, dependencies |-> <<>>, registryDependencies |-> <<>>, files |-> <<>>]

\* The objects extraContent may return.
ExtraMembers ==
    {[k |-> "theme", v |-> JStr("dark")],
     [k |-> "items", v |-> JArr(<<BundleItemNamed(<<"other">>)>>)],
     [k |-> "integrity", v |-> JStr("x")]}
ExtraContents ==
    {e \in SeqsUpTo(ExtraMembers, MaxExtraKeys) :
        \A i, j \in DOMAIN e : e[i].k = e[j].k => i = j}

\* createBundler, line 235: the content the integrity is computed over.
ContentForHash(items, extra) ==
    JSONstringify(Spread(<<[k |-> "items", v |-> JArr(items)]>>, extra))

\* createBundler, lines 239-240: the bundle that is written.
BundleJson(items, extra, integrity) ==
    JSONstringify(SetKey(Spread(<<[k |-> "items", v |-> JArr(items)]>>, extra),
                         "integrity", integrity))

\* createBundler, lines 123-243: the run up to its first write.  A source
\* that fails a check ends the process (process.exit(1)); else the items are
\* built and, with the extra content, the integrity, the bundle and its JSON
\* text.
bundlerBuild(extra) ==
    /\ bpc = "idle"
    /\ LET failure == SourceFailure(registryJson, sourceFiles)
           parsed == [i \in DOMAIN registryJson.items |->
                         RegistrySourceItemSchema(registryJson.items[i])]
           items == BundleItems(parsed, sourceFiles, bundlerConfig)
           integrity == Sha256Integrity(ContentForHash(items, extra))
       IN IF failure # "none"
          THEN /\ bexit' = failure
               /\ UNCHANGED <<bpc, bundlerRun>>
          ELSE /\ bexit' = "none"
               /\ bpc' = "writeTmp"
               /\ bundlerRun' = [items |-> items, extra |-> extra, integrity |-> integrity,
                                 bundleJson |-> JsonFile(BundleJson(items, extra, integrity))]
    /\ UNCHANGED <<bundleFile, bundleTmp, built, sourceVars, loaderVars, fsVars,
                   installerVars, resolverVars, publicVars, cliVars>>

\* The output path, as the list of its parts.
OutputPath == <<"registry-bundle.json">>

\* A bundler that writes the bundle in place.
tmpPath_InPlace(outputPath) == outputPath

\* createBundler, line 243: tmpPath = outputPath + ".tmp".
tmpPath(outputPath) == outputPath \o <<".tmp">>

\* The file at one of the bundler's two paths.
BundlerFileAt(path) == IF path = OutputPath THEN bundleFile ELSE bundleTmp

\* The file at path becomes f; the file at the other path stays.
BundlerFileSet(path, f) ==
    IF path = OutputPath
    THEN bundleFile' = f /\ UNCHANGED bundleTmp
    ELSE bundleTmp' = f /\ UNCHANGED bundleFile

\* createBundler, line 244: writeFileSync(tmpPath, bundleJson).  The write
\* that fails, or during which the process dies, leaves the file as it was
\* (it was not opened) or truncated.
bundlerWriteTmp ==
    /\ bpc = "writeTmp"
    /\ \/ /\ BundlerFileSet(tmpPath(OutputPath), bundlerRun.bundleJson)
          /\ bpc' = "rename"
          /\ UNCHANGED bexit
       \/ /\ \E f \in {BundlerFileAt(tmpPath(OutputPath)), TruncatedFile} :
                BundlerFileSet(tmpPath(OutputPath), f)
          /\ bpc' = "idle"
          /\ bexit' = "threw"
    /\ built' = (built /\ bundleFile' = bundleFile)
    /\ UNCHANGED <<bundlerRun, sourceVars, loaderVars, fsVars, installerVars, resolverVars, publicVars, cliVars>>

\* createBundler, line 245: renameSync(tmpPath, outputPath); the run is over.
\* A rename that fails leaves both files.
bundlerRename ==
    /\ bpc = "rename"
    /\ \/ /\ bundleFile' = BundlerFileAt(tmpPath(OutputPath))
          /\ bundleTmp' = IF tmpPath(OutputPath) = OutputPath THEN bundleTmp ELSE AbsentFile
          /\ built' = TRUE
          /\ bexit' = "returned"
       \/ /\ bexit' = "threw"
          /\ UNCHANGED <<bundleFile, bundleTmp, built>>
    /\ bpc' = "idle"
    /\ UNCHANGED <<bundlerRun, sourceVars, loaderVars, fsVars, installerVars, resolverVars, publicVars, cliVars>>

\* The process dies between two steps of the run.
bundlerCrash ==
    /\ bpc # "idle"
    /\ bpc' = "idle"
    /\ bexit' = "killed"
    /\ UNCHANGED <<bundleFile, bundleTmp, bundlerRun, built, sourceVars, loaderVars, fsVars,
                   installerVars, resolverVars, publicVars, cliVars>>

\* The bundle schema the loader is created with: an object with an items
\* array and, when it has an integrity member, a string there.
bundleSchema(raw) ==
    /\ HasKey(raw, "items") /\ Get(raw, "items").t = "array"
    /\ HasKey(raw, "integrity") => Get(raw, "integrity").t = "string"

\* The integrityContent function the loader is created with: the bundle
\* without its integrity member.
integrityContent(bundle) == Omit(bundle, "integrity")

\* A loader that checks no integrity.
HasIntegrity_Never(bundle) == FALSE

\* createRegistryLoader, line 292: bundle.integrity is a non-empty string.
HasIntegrity(bundle) ==
    HasKey(bundle, "integrity") /\ Get(bundle, "integrity").s # ""

\* createRegistryLoader, lines 293-295: the integrity the loader expects.
ExpectedIntegrity(bundle) == Sha256Integrity(JSONstringify(integrityContent(bundle)))

\* A loader that compares nothing.
IntegrityMismatch_Never(bundle) == FALSE

\* createRegistryLoader, line 295: the bundle's integrity is not the expected one.
IntegrityMismatch(bundle) == Get(bundle, "integrity") # ExpectedIntegrity(bundle)

\* A loader that never serves its cache.
CacheHit_Never == FALSE

\* createRegistryLoader, line 272: the cache is served.
CacheHit == cached # <<>>

\* One call of the loader, lines 271-305.
load ==
    /\ \/ /\ CacheHit
          /\ loadResult' = [kind |-> "returned", value |-> cached]
          /\ loadRead' = FALSE
          /\ UNCHANGED cached
       \/ /\ ~CacheHit
          /\ bundleFile.kind = "absent"
          /\ loadResult' = [kind |-> "not-found", value |-> <<>>]
          /\ loadRead' = FALSE
          /\ UNCHANGED cached
       \/ /\ ~CacheHit
          /\ bundleFile.kind \in {"garbage", "truncated"}
          /\ loadResult' = [kind |-> "parse", value |-> <<>>]
          /\ loadRead' = TRUE
          /\ UNCHANGED cached
       \/ /\ ~CacheHit
          /\ bundleFile.kind = "json"
          /\ ~bundleSchema(bundleFile.value)
          /\ loadResult' = [kind |-> "schema", value |-> <<>>]
          /\ loadRead' = TRUE
          /\ UNCHANGED cached
       \/ /\ ~CacheHit
          /\ bundleFile.kind = "json"
          /\ bundleSchema(bundleFile.value)
          /\ HasIntegrity(bundleFile.value) /\ IntegrityMismatch(bundleFile.value)
          /\ loadResult' = [kind |-> "integrity", value |-> <<>>]
          /\ loadRead' = TRUE
          /\ UNCHANGED cached
       \/ /\ ~CacheHit
          /\ bundleFile.kind = "json"
          /\ bundleSchema(bundleFile.value)
          /\ ~(HasIntegrity(bundleFile.value) /\ IntegrityMismatch(bundleFile.value))
          /\ cached' = <<bundleFile.value>>
          /\ loadResult' = [kind |-> "returned", value |-> cached']
          /\ loadRead' = TRUE
    /\ loadTick' = ~loadTick
    /\ UNCHANGED <<bundlerVars, fsVars, installerVars, resolverVars, publicVars, cliVars>>

\* What becomes of the bundle file between two calls: it is deleted,
\* corrupted, or rewritten with another JSON text.
Rewrites ==
    LET evil == [k |-> "items", v |-> JArr(<<BundleItemNamed(<<"evil">>)>>)]
        theme == [k |-> "theme", v |-> JStr("dark")]
        integ(v) == [k |-> "integrity", v |-> v]
    IN {AbsentFile, GarbageFile,
        JsonFile(<<theme>>),
        JsonFile(<<evil>>),
        JsonFile(<<evil, integ(JStr(""))>>),
        JsonFile(<<evil, integ(JStr("x"))>>),
        JsonFile(<<evil, integ(Sha256Integrity(<<[k |-> "items", v |-> JArr(<<BundleItemNamed(<<"a">>)>>)]>>))>>),
        JsonFile(<<evil, integ(Sha256Integrity(<<evil>>))>>),
        JsonFile(<<evil, theme, integ(Sha256Integrity(<<evil, theme>>))>>),
        JsonFile(<<evil, theme, integ(Sha256Integrity(<<evil>>))>>)}

fileChanged(f) ==
    /\ bundleFile # f
    /\ bundleFile' = f
    /\ built' = FALSE
    /\ UNCHANGED <<bundleTmp, bpc, bundlerRun, sourceVars, bexit, loaderVars, fsVars,
                   installerVars, resolverVars, publicVars, cliVars>>

\* A source registry of one item that declares one dependency and no file.
OneItemSource ==
    /\ registryJson =
          [kind |-> "json",
           items |-> <<[name |-> <<"a">>, dependencies |-> <<<<Clsx>>>>,
                        registryDependencies |-> <<>>, files |-> <<>>]>>]
    /\ sourceFiles = <<>>
    /\ bundlerConfig = [peerDeps |-> DEFAULT_PEER_DEPS, coreDeps |-> {}]

InitBundle ==
    /\ InstallerParked /\ ResolverParked /\ PublicParked /\ CliParked
    /\ bundleFile = AbsentFile /\ bundleTmp = AbsentFile
    /\ BundlerAtRest /\ LoaderAtRest /\ OneItemSource

NextBundle ==
    \/ \E extra \in ExtraContents : bundlerBuild(extra)
    \/ bundlerWriteTmp
    \/ bundlerRename
    \/ bundlerCrash
    \/ load
    \/ \E f \in Rewrites : fileChanged(f)

SpecBundle == InitBundle /\ [][NextBundle]_vars

\* ---- The bundler over the source registries ----

\* The source items: an item a or b, with or without declared dependencies
\* (a peer, a core and a plain one, one of them twice), with or without
\* registryDependencies (a local name, a URL and a namespaced reference),
\* with or without a file.
DeclaredDependencies == <<React, Clsx, Zod, Zod>>
DeclaredRegistryDependencies == <<<<"b">>, Https \o <<"x">>, <<"@", "n", "/", "a">>>>
RawItems ==
    [name : {<<"a">>, <<"b">>},
     dependencies : {<<>>, <<DeclaredDependencies>>},
     registryDependencies : {<<>>, <<DeclaredRegistryDependencies>>},
     files : {<<>>, <<"f">>}]

\* registry.json: missing, no JSON, JSON that fails the schema, or a list of items.
SourceDefs ==
    {[kind |-> k, items |-> <<>>] : k \in {"absent", "garbage", "invalid"}}
        \cup {[kind |-> "json", items |-> l] : l \in SeqsUpTo(RawItems, MaxItems)}

\* The disk: without the file, or with one of two contents.
Disks == {<<>>} \cup {[p \in {"f"} |-> c] : c \in {Content1, Content2}}

\* The default configuration, and one with a core and a peer dependency.
Configs ==
    {[peerDeps |-> DEFAULT_PEER_DEPS, coreDeps |-> {}],
     [peerDeps |-> {Zod}, coreDeps |-> {Clsx}]}

\* A bundle an earlier build has left at the output path.
OldBundle == JsonFile(<<[k |-> "items", v |-> JArr(<<BundleItemNamed(<<"old">>)>>)]>>)

InitBuild ==
    /\ InstallerParked /\ ResolverParked /\ PublicParked /\ CliParked
    /\ BundlerAtRest /\ LoaderAtRest
    /\ bundleFile \in {AbsentFile, OldBundle} /\ bundleTmp = AbsentFile
    /\ registryJson \in SourceDefs
    /\ sourceFiles \in Disks
    /\ bundlerConfig \in Configs

NextBuild ==
    \/ bundlerBuild(<<>>)
    \/ bundlerWriteTmp
    \/ bundlerRename
    \/ bundlerCrash

SpecBuild == InitBuild /\ [][NextBuild]_vars

\* --------------------------------------------------------------------------
\* The artifact pipeline: the freshness check and the registry build
\* --------------------------------------------------------------------------

\* a ?? [] for an optional array (empty when it is missing, else the one list).
OrEmpty(a) == IF a = <<>> THEN <<>> ELSE a[1]

\* JSON.stringify of an array of strings, as the list of its tokens.
RECURSIVE StringifyElements(_)
StringifyElements(arr) ==
    IF arr = <<>> THEN <<>>
    ELSE <<"\"">> \o Head(arr) \o <<"\"">>
            \o (IF Tail(arr) = <<>> THEN <<>> ELSE <<",">> \o StringifyElements(Tail(arr)))
StringifyStrings(arr) == <<"[">> \o StringifyElements(arr) \o <<"]">>

\* A check that takes the arrays as sets.
SameStringArray_AnyOrder(a, b) == Range(OrEmpty(a)) = Range(OrEmpty(b))

\* ensureSameStringArray, lines 149-160: the two arrays have the same JSON text.
SameStringArray(a, b) == StringifyStrings(OrEmpty(a)) = StringifyStrings(OrEmpty(b))

\* new Map(publicItems.map(...)).get(name), line 174: the last item of that
\* name, in a list of at most one element.
PublicItemNamed(items, name) ==
    LET found == {i \in DOMAIN items : items[i].name = name}
    IN IF found = {} THEN <<>>
       ELSE <<items[CHOOSE i \in found : \A j \in found : j <= i]>>

\* new Map(files.map(...)).get(path), line 215: the last file of that path.
PublicFileAt(pubFiles, path) ==
    LET found == {i \in DOMAIN pubFiles : pubFiles[i].path = path}
    IN IF found = {} THEN <<>>
       ELSE <<pubFiles[CHOOSE i \in found : \A j \in found : j <= i]>>

\* The first failure of a list of checks ("none" when all passed).
FirstFailure(checks) ==
    LET found == {i \in DOMAIN checks : checks[i] # "none"}
    IN IF found = {} THEN "none"
       ELSE checks[CHOOSE i \in found : \A j \in found : i <= j]

\* validatePublicRegistryFresh, lines 217-241: one declared file.
FileFailure(path, disk, artifact) ==
    IF path \notin DOMAIN disk THEN "source file not found"
    ELSE LET publicFile == PublicFileAt(artifact.files, path)
         IN IF publicFile = <<>> \/ publicFile[1].content = <<>> THEN "file missing"
            ELSE IF publicFile[1].content[1] # disk[path] THEN "content stale"
            ELSE "none"

\* validatePublicRegistryFresh, lines 185-242: one source item.
ItemFailure(sourceItem, disk, index, artifacts) ==
    LET publicItem == PublicItemNamed(index.items, sourceItem.name)
        artifact == artifacts[sourceItem.name]
    IN IF publicItem = <<>> THEN "item missing"
       ELSE IF ~SameStringArray(sourceItem.dependencies, publicItem[1].dependencies)
            THEN "dependencies mismatch"
       ELSE IF ~SameStringArray(sourceItem.registryDependencies,
                                publicItem[1].registryDependencies)
            THEN "registryDependencies mismatch"
       ELSE IF artifact.kind = "absent" THEN "artifact not found"
       ELSE IF artifact.kind # "json" THEN "artifact unreadable"
       ELSE FirstFailure([k \in DOMAIN sourceItem.files |->
                             FileFailure(sourceItem.files[k], disk, artifact)])

\* validatePublicRegistryFresh, lines 162-243: the error it throws ("none"
\* when it returns).
FreshFailure(source, disk, index, artifacts) ==
    IF source.kind # "json" THEN "source unreadable"
    ELSE IF index.kind # "json" THEN "index unreadable"
    ELSE IF Len(source.items) # Len(index.items) THEN "count mismatch"
    ELSE FirstFailure([i \in DOMAIN source.items |->
                          ItemFailure(source.items[i], disk, index, artifacts)])

\* One call of validatePublicRegistryFresh.
validatePublicRegistryFresh ==
    /\ fresh' = FreshFailure(registryJson, sourceFiles, publicRegistry, publicItemJson)
    /\ freshTick' = ~freshTick
    /\ UNCHANGED <<publicDirVars, hasLocalShadcn, ready, artifactRun, fsVars, installerVars,
                   resolverVars, bundleVars, cliVars>>

\* resetDir, lines 23-26: the directory is there and empty.
resetDir ==
    [index |-> [kind |-> "absent", items |-> <<>>],
     artifacts |-> [n \in PublicNames |-> [kind |-> "absent", files |-> <<>>]]]

\* What the build binary writes for a source: the index with the items, and
\* for each item the artifact with its files and their contents.
Published(source, disk) ==
    [index |-> [kind |-> "json",
                items |-> [i \in DOMAIN source.items |->
                             [name |-> source.items[i].name,
                              dependencies |-> source.items[i].dependencies,
                              registryDependencies |-> source.items[i].registryDependencies]]],
     artifacts |->
        [n \in PublicNames |->
            LET item == PublicItemNamed(source.items, n)
            IN IF item = <<>> THEN [kind |-> "absent", files |-> <<>>]
               ELSE [kind |-> "json",
                     files |-> [k \in DOMAIN item[1].files |->
                                  [path |-> item[1].files[k],
                                   content |-> <<disk[item[1].files[k]]>>]]]]]

\* The build binary can read the source and its files.
Buildable(source, disk) ==
    /\ source.kind = "json"
    /\ \A i \in DOMAIN source.items : Range(source.items[i].files) \subseteq DOMAIN disk

\* runShadcnRegistryBuild, lines 317-337, on the public directory pub: the
\* ways it can end.  Without the binary it throws at once; else the output
\* directory is reset and the binary runs, and either fails (a non-zero
\* exit status, line 303), or exits with status 0 and has written nothing,
\* or writes its output.
runShadcnRegistryBuild(source, disk, localBin, pub) ==
    IF ~localBin
    THEN {[threw |-> TRUE, invoked |-> FALSE, pub |-> pub]}
    ELSE {[threw |-> TRUE, invoked |-> TRUE, pub |-> resetDir],
          [threw |-> FALSE, invoked |-> TRUE, pub |-> resetDir]}
            \cup (IF Buildable(source, disk)
                  THEN {[threw |-> FALSE, invoked |-> TRUE, pub |-> Published(source, disk)]}
                  ELSE {})

\* A pipeline that builds whether the index is there or not.
IndexMissing_Always(index) == TRUE

\* ensurePublicRegistryReady, line 259: !existsSync(publicRegistryIndex).
IndexMissing(index) == index.kind = "absent"

\* A pipeline that returns after the rebuild without the second check.
ReadyAfterIndex_NoRecheck(source, disk, localBin, pub, builds) ==
    LET failure == FreshFailure(source, disk, pub.index, pub.artifacts)
    IN IF failure = "none"
       THEN {[outcome |-> "returned", builds |-> builds, error |-> "", pub |-> pub]}
       ELSE IF ~localBin
       THEN {[outcome |-> "threw", builds |-> builds, error |-> failure, pub |-> pub]}
       ELSE {[outcome |-> IF b.threw THEN "threw" ELSE "returned",
              builds |-> builds \o <<"stale">>,
              error |-> IF b.threw THEN "build failed" ELSE "",
              pub |-> b.pub]
             : b \in runShadcnRegistryBuild(source, disk, localBin, pub)}

\* ensurePublicRegistryReady, lines 277-298: from the public directory pub,
\* after the builds so far, the ways the call can end.
ReadyAfterIndex(source, disk, localBin, pub, builds) ==
    LET failure == FreshFailure(source, disk, pub.index, pub.artifacts)
    IN IF failure = "none"
       THEN {[outcome |-> "returned", builds |-> builds, error |-> "", pub |-> pub]}
       ELSE IF ~localBin
       THEN {[outcome |-> "threw", builds |-> builds, error |-> failure, pub |-> pub]}
       ELSE {LET again == FreshFailure(source, disk, b.pub.index, b.pub.artifacts)
             IN [outcome |-> IF b.threw \/ again # "none" THEN "threw" ELSE "returned",
                 builds |-> builds \o <<"stale">>,
                 error |-> IF b.threw THEN "build failed" ELSE IF again # "none" THEN again ELSE "",
                 pub |-> b.pub]
             : b \in runShadcnRegistryBuild(source, disk, localBin, pub)}

\* ensurePublicRegistryReady, lines 245-299: the ways the call can end.
ReadyRuns(source, disk, localBin, pub) ==
    IF ~IndexMissing(pub.index)
    THEN ReadyAfterIndex(source, disk, localBin, pub, <<>>)
    ELSE IF ~localBin
    THEN {[outcome |-> "threw", builds |-> <<>>, error |-> "index missing", pub |-> pub]}
    ELSE UNION {IF b.threw
                THEN {[outcome |-> "threw", builds |-> <<"missing">>,
                       error |-> "build failed", pub |-> b.pub]}
                ELSE ReadyAfterIndex(source, disk, localBin, b.pub, <<"missing">>)
                : b \in runShadcnRegistryBuild(source, disk, localBin, pub)}

\* One call of ensurePublicRegistryReady.
ensurePublicRegistryReady ==
    /\ ready.outcome = "none"
    /\ \E r \in ReadyRuns(registryJson, sourceFiles, hasLocalShadcn,
                           [index |-> publicRegistry, artifacts |-> publicItemJson]) :
          /\ ready' = [outcome |-> r.outcome, builds |-> r.builds, error |-> r.error]
          /\ publicRegistry' = r.pub.index
          /\ publicItemJson' = r.pub.artifacts
    /\ UNCHANGED <<hasLocalShadcn, fresh, freshTick, artifactRun, fsVars, installerVars,
                   resolverVars, bundleVars, cliVars>>

\* The sources of the pipeline: no registry.json, no item, an item with
\* nothing, an item with dependencies and a file, and the latter with a
\* second item whose dependencies are an empty array.
PublicSourceItems ==
    {<<>>,
     <<[name |-> <<"a">>, dependencies |-> <<>>, registryDependencies |-> <<>>, files |-> <<>>]>>,
     <<[name |-> <<"a">>, dependencies |-> <<<<Clsx, Zod>>>>,
        registryDependencies |-> <<<<<<"b">>>>>>, files |-> <<"f">>]>>,
     <<[name |-> <<"a">>, dependencies |-> <<<<Clsx, Zod>>>>,
        registryDependencies |-> <<<<<<"b">>>>>>, files |-> <<"f">>],
       [name |-> <<"b">>, dependencies |-> <<<<>>>>, registryDependencies |-> <<>>,
        files |-> <<>>]>>}
PublicSources ==
    {[kind |-> "absent", items |-> <<>>]}
        \cup {[kind |-> "json", items |-> l] : l \in PublicSourceItems}

\* The items of a public index: a or b, with four shapes of the two arrays.
PublicIndexItems ==
    {[name |-> n, dependencies |-> sh[1], registryDependencies |-> sh[2]] :
        n \in PublicNames,
        sh \in {<<<<>>, <<>>>>,
                <<<<<<Clsx, Zod>>>>, <<<<<<"b">>>>>>>>,
                <<<<<<Zod, Clsx>>>>, <<<<<<"b">>>>>>>>,
                <<<<<<Clsx, Zod>>>>, <<>>>>}}
PublicIndexes ==
    {[kind |-> "absent", items |-> <<>>]}
        \cup {[kind |-> "json", items |-> l] : l \in SeqsUpTo(PublicIndexItems, MaxItems)}

\* The artifact of a: missing, without files, with the file f (its content
\* that of the disk, another one, or no string), or with f twice.
ArtifactsOfA ==
    {[kind |-> "absent", files |-> <<>>]}
        \cup {[kind |-> "json", files |-> fs] :
                fs \in {<<>>,
                        <<[path |-> "f", content |-> <<Content2>>]>>,
                        <<[path |-> "f", content |-> <<<<>>>>]>>,
                        <<[path |-> "f", content |-> <<>>]>>,
                        <<[path |-> "f", content |-> <<Content2>>],
                          [path |-> "f", content |-> <<<<>>>>]>>}}
ArtifactsOfB == {[kind |-> "absent", files |-> <<>>], [kind |-> "json", files |-> <<>>]}

InitPublic ==
    /\ InstallerParked /\ ResolverParked /\ CliParked
    /\ bundleFile = AbsentFile /\ bundleTmp = AbsentFile
    /\ BundlerAtRest /\ LoaderAtRest
    /\ registryJson \in PublicSources
    /\ sourceFiles \in {<<>>, [p \in {"f"} |-> Content2]}
    /\ bundlerConfig = [peerDeps |-> DEFAULT_PEER_DEPS, coreDeps |-> {}]
    /\ publicRegistry \in PublicIndexes
    /\ \E a \in ArtifactsOfA, b \in ArtifactsOfB :
          publicItemJson = [n \in PublicNames |-> IF n = <<"a">> THEN a ELSE b]
    /\ hasLocalShadcn \in BOOLEAN
    /\ ready = NoReady /\ fresh = "none" /\ freshTick = FALSE
    /\ artifactRun = NoArtifactRun

NextPublic ==
    \/ validatePublicRegistryFresh
    \/ ensurePublicRegistryReady

SpecPublic == InitPublic /\ [][NextPublic]_vars

\* --------------------------------------------------------------------------
\* detectPackageManager.  A string is the list of its tokens.
\* --------------------------------------------------------------------------

\* str.includes(sub)
includes(str, sub) ==
    \E i \in 1..(Len(str) - Len(sub) + 1) : SubSeq(str, i, i + Len(sub) - 1) = sub

\* detectPackageManager, lines 39-45.
lockfiles ==
    <<[file |-> "pnpm-lock.yaml", pm |-> "pnpm"],
      [file |-> "yarn.lock", pm |-> "yarn"],
      [file |-> "bun.lockb", pm |-> "bun"],
      [file |-> "bun.lock", pm |-> "bun"],
      [file |-> "package-lock.json", pm |-> "npm"]>>

\* Array.prototype.sort with the comparator of line 57: by mtime, the most
\* recent first; the sort is stable.
RECURSIVE SortByMtime(_, _)
SortByMtime(found, mtimes) ==
    IF found = <<>> THEN <<>>
    ELSE LET front == SortByMtime(SubSeq(found, 1, Len(found) - 1), mtimes)
             last == found[Len(found)]
             k == Cardinality({i \in DOMAIN front :
                                  mtimes[front[i].file] >= mtimes[last.file]})
         IN SubSeq(front, 1, k) \o <<last>> \o SubSeq(front, k + 1, Len(front))

\* detectPackageManager, lines 26-61.
detectPackageManager(field, agent, mtimes) ==
    IF field # <<>> /\ startsWith(field[1], <<"pnpm">>) THEN "pnpm"
    ELSE IF field # <<>> /\ startsWith(field[1], <<"yarn">>) THEN "yarn"
    ELSE IF field # <<>> /\ startsWith(field[1], <<"bun">>) THEN "bun"
    ELSE IF agent # <<>> /\ includes(agent[1], <<"pnpm">>) THEN "pnpm"
    ELSE IF agent # <<>> /\ includes(agent[1], <<"yarn">>) THEN "yarn"
    ELSE IF agent # <<>> /\ includes(agent[1], <<"bun">>) THEN "bun"
    ELSE LET inCwd(l) == l.file \in DOMAIN mtimes
             found == SelectSeq(lockfiles, inCwd)
             sorted == IF Len(found) > 1 THEN SortByMtime(found, mtimes) ELSE found
         IN IF sorted = <<>> THEN "npm" ELSE sorted[1].pm

\* One call of detectPackageManager.
Detect ==
    /\ detected = "none"
    /\ detected' = detectPackageManager(packageManager, userAgent, lockMtimes)
    /\ UNCHANGED <<packageManager, userAgent, lockMtimes, preview, libVars, fsVars,
                   installerVars, resolverVars, bundleVars, publicVars>>

\* The four tools, and a packageManager field and a user agent for each;
\* a field that names another tool.
PackageManagers == {"npm", "pnpm", "yarn", "bun"}
PackageManagerFields ==
    {<<>>, <<<<"deno", "@", "2">>>>} \cup {<<<<pm, "@", "9">>>> : pm \in PackageManagers}
UserAgents ==
    {<<>>} \cup {<<<<pm, "/", "9", " ", "node", "/", "v22">>>> : pm \in PackageManagers}

InitDetect ==
    /\ InstallerParked /\ ResolverParked /\ BundleParked /\ PublicParked
    /\ packageManager \in PackageManagerFields
    /\ userAgent \in UserAgents
    /\ \E present \in SUBSET {lockfiles[i].file : i \in DOMAIN lockfiles} :
          lockMtimes \in [present -> 1..MaxMtime]
    /\ detected = "none" /\ preview = NoPreview
    /\ LibParked

NextDetect == Detect

SpecDetect == InitDetect /\ [][NextDetect]_vars

\* --------------------------------------------------------------------------
\* The dry run
\* --------------------------------------------------------------------------

\* A preview that takes no account of the overwrite flag.
DryRunLines_NoOverwrite(ops, ow) ==
    [i \in DOMAIN ops |->
        [action |-> IF existsSync(ops[i].targetPath) THEN "skip" ELSE "+",
         path |-> ops[i].targetPath]]

\* showDryRunPreview, lines 115-122: the lines it logs.
DryRunLines(ops, ow) ==
    [i \in DOMAIN ops |->
        LET exists == existsSync(ops[i].targetPath)
        IN [action |-> IF exists /\ ~ow THEN "skip" ELSE IF exists THEN "~" ELSE "+",
            path |-> ops[i].targetPath]]

\* A preview that does what it reports: it writes the files it lists.
showDryRunPreview_Writes(ops, ow) ==
    /\ pc = "idle"
    /\ preview' = [kind |-> "files", lines |-> DryRunLines(ops, ow)]
    /\ LET toWrite == {i \in DOMAIN ops : DryRunLines(ops, ow)[i].action = "+"}
       IN files' = [p \in DOMAIN files \cup {ops[i].targetPath : i \in toWrite} |->
                       IF p \in DOMAIN files THEN files[p]
                       ELSE ops[CHOOSE i \in toWrite : ops[i].targetPath = p].content]
    /\ UNCHANGED <<dirs, tmps, installerVars, resolverVars, bundleVars, publicVars, detectVars, libVars>>

\* showDryRunPreview, lines 113-123: one line for each file operation.
showDryRunPreview(ops, ow) ==
    /\ pc = "idle"
    /\ preview' = [kind |-> "files", lines |-> DryRunLines(ops, ow)]
    /\ UNCHANGED <<fsVars, installerVars, resolverVars, bundleVars, publicVars, detectVars, libVars>>

\* showDryRunDeps, lines 125-130: one line for each missing package.
showDryRunDeps(missing) ==
    /\ pc = "idle"
    /\ preview' = [kind |-> "deps", lines |-> missing]
    /\ UNCHANGED <<fsVars, installerVars, resolverVars, bundleVars, publicVars, detectVars, libVars>>

InitDryRun ==
    /\ \E fs \in InitFileSystems : files = fs.files /\ dirs = fs.dirs
    /\ tmps = {}
    /\ InitInstaller
    /\ ResolverParked /\ BundleParked /\ PublicParked /\ CliParked

NextDryRun ==
    \/ \E ops \in FileOpLists, ow \in BOOLEAN : showDryRunPreview(ops, ow)
    \/ \E ds \in PackageLists : showDryRunDeps(ds)

SpecDryRun == InitDryRun /\ [][NextDryRun]_vars

\* ---- The preview, then the install of what was previewed ----

\* The targets of the previewed operations: the two files, and a path that
\* is the directory of one of them.
PreviewTargets == Targets \cup {<<"a", "b">>}

\* The lists of operations with pairwise distinct targets.
PreviewOpLists ==
    {ops \in SeqsUpTo([targetPath : PreviewTargets, content : OpContents], MaxOps) :
        \A i, j \in DOMAIN ops : ops[i].targetPath = ops[j].targetPath => i = j}

\* writeFilesWithRollback is called with the operations and the flag whose
\* preview, on the file system as it is, is the one that was shown.
installPreviewed(ops, ow) ==
    /\ preview = [kind |-> "files", lines |-> DryRunLines(ops, ow)]
    /\ writeFilesWithRollback(ops, ow)

InitPreview == InitDryRun

NextPreview ==
    \/ \E ops \in PreviewOpLists, ow \in BOOLEAN : showDryRunPreview(ops, ow)
    \/ \E ops \in PreviewOpLists, ow \in BOOLEAN : installPreviewed(ops, ow)
    \/ LoopOp
    \/ LoopDone
    \/ writeFileSafeBegin
    \/ writeFileSafeWriteTmp
    \/ writeFileSafeRename
    \/ writeFileSafeCatch("removed")
    \/ LoopAfterWrite
    \/ Catch
    \/ rollbackRestore
    \/ rollbackAfterRestore
    \/ rollbackDelete
    \/ rollbackCleanDirs

SpecPreview == InitPreview /\ [][NextPreview]_vars

\* --------------------------------------------------------------------------
\* The origin rewriting: rewriteOriginValue
\* --------------------------------------------------------------------------

\* The default origin, "https://diffgazer.com", with its host cut to one
\* letter; a string is the list of its characters.
DEFAULT_REGISTRY_ORIGIN == Https \o <<"d">>

\* Another origin, one that ends with the letter it starts with.
OtherOrigin == Http \o <<"h">>

\* A parsed JSON value: a string, another leaf (null, a number, a boolean),
\* an array, or an object as the list of its members in their order.
VStr(chars) == [t |-> "string", s |-> chars]
VLeaf(v) == [t |-> "leaf", v |-> v]
VArr(elems) == [t |-> "array", a |-> elems]
VObj(members) == [t |-> "object", m |-> members]

\* A rewriting that replaces the first occurrence only.
RECURSIVE replaceAll_First(_, _, _)
replaceAll_First(str, from, to) ==
    IF Len(str) < Len(from) THEN str
    ELSE IF startsWith(str, from)
         THEN to \o SubSeq(str, Len(from) + 1, Len(str))
    ELSE <<Head(str)>> \o replaceAll_First(Tail(str), from, to)

\* String.prototype.replaceAll(from, to) for a from that is not empty and
\* a to without "$": from left to right, every occurrence that starts
\* behind the one replaced before.
RECURSIVE replaceAll(_, _, _)
replaceAll(str, from, to) ==
    IF Len(str) < Len(from) THEN str
    ELSE IF startsWith(str, from)
         THEN to \o replaceAll(SubSeq(str, Len(from) + 1, Len(str)), from, to)
    ELSE <<Head(str)>> \o replaceAll(Tail(str), from, to)

\* rewriteOriginValue, lines 109-123, with the two origins of lines 106-107.
RECURSIVE rewriteOriginValue(_, _, _)
rewriteOriginValue(value, fromOrigin, toOrigin) ==
    IF value.t = "string" THEN VStr(replaceAll(value.s, fromOrigin, toOrigin))
    ELSE IF value.t = "array"
         THEN VArr([i \in DOMAIN value.a |->
                       rewriteOriginValue(value.a[i], fromOrigin, toOrigin)])
    ELSE IF value.t = "object"
         THEN VObj([i \in DOMAIN value.m |->
                       [k |-> value.m[i].k,
                        v |-> rewriteOriginValue(value.m[i].v, fromOrigin, toOrigin)]])
    ELSE value

\* The strings, the keys and the values the function is given.
OriginStrings ==
    {<<>>,
     <<"x">>,
     DEFAULT_REGISTRY_ORIGIN \o <<"/", "r">>,
     <<"x">> \o DEFAULT_REGISTRY_ORIGIN \o DEFAULT_REGISTRY_ORIGIN,
     OtherOrigin \o <<"/">> \o DEFAULT_REGISTRY_ORIGIN \o <<"/">> \o OtherOrigin,
     Http \o OtherOrigin}

OriginKeys == {<<"k">>, DEFAULT_REGISTRY_ORIGIN}

Leaves == {VStr(str) : str \in OriginStrings} \cup {VLeaf("null"), VLeaf("1")}

ArraysOf(vals) == {VArr(a) : a \in SeqsUpTo(vals, MaxElems)}

ObjectsOf(vals) ==
    {VObj(m) : m \in {mm \in SeqsUpTo([k : OriginKeys, v : vals], MaxElems) :
                         \A i, j \in DOMAIN mm : mm[i].k = mm[j].k => i = j}}

FlatValues == Leaves \cup ArraysOf(Leaves) \cup ObjectsOf(Leaves)

OriginValues ==
    FlatValues
    \cup {VArr(<<v>>) : v \in FlatValues}
    \cup {VObj(<<[k |-> k, v |-> v]>>) : k \in OriginKeys, v \in FlatValues}

\* The options: each origin is left out (<<>>) or given.
OriginOptions ==
    [fromOrigin : {<<>>, <<OtherOrigin>>},
     toOrigin : {<<>>, <<OtherOrigin>>, <<Https \o <<"e">>>>}]

InitRewrite ==
    /\ InstallerParked /\ ResolverParked /\ BundleParked /\ PublicParked
    /\ packageManager = <<>> /\ userAgent = <<>> /\ lockMtimes = <<>>
    /\ detected = "none" /\ preview = NoPreview
    /\ libArgs \in [value : OriginValues, options : OriginOptions]
    /\ libResult = <<>>

\* One call of rewriteOriginValue(value, options).
RewriteOrigin ==
    /\ libResult = <<>>
    /\ libResult' =
          <<rewriteOriginValue(libArgs.value,
                               OrDefault(libArgs.options.fromOrigin, DEFAULT_REGISTRY_ORIGIN),
                               OrDefault(libArgs.options.toOrigin, DEFAULT_REGISTRY_ORIGIN))>>
    /\ UNCHANGED <<libArgs, detectVars, preview, fsVars, installerVars, resolverVars,
                   bundleVars, publicVars>>

NextRewrite == RewriteOrigin

SpecRewrite == InitRewrite /\ [][NextRewrite]_vars

\* --------------------------------------------------------------------------
\* The inputs fingerprint: collectAllFiles and computeInputsFingerprint
\* --------------------------------------------------------------------------

\* A file name is the list of its code points, a path the list of its
\* names.  EAcuteNFC is the one code point U+00E9; EAcuteNFD is "e" and the
\* combining accent U+0301: two names, canonically equivalent.
NameA == <<97>>
NameD == <<100>>
NameR == <<114>>
NameS == <<115>>
NameMissing == <<109>>
EAcuteNFC == <<233>>
EAcuteNFD == <<101, 769>>

\* The canonical decomposition of a text (of the code points in use).
RECURSIVE NFD(_)
NFD(text) ==
    IF text = <<>> THEN <<>>
    ELSE IF Head(text) = 233 THEN <<101, 769>> \o NFD(Tail(text))
    ELSE <<Head(text)>> \o NFD(Tail(text))

\* The order of two lists of code points: -1, 0 or 1.
RECURSIVE CompareCodePoints(_, _)
CompareCodePoints(a, b) ==
    IF a = <<>> /\ b = <<>> THEN 0
    ELSE IF a = <<>> THEN -1
    ELSE IF b = <<>> THEN 1
    ELSE IF Head(a) < Head(b) THEN -1
    ELSE IF Head(a) > Head(b) THEN 1
    ELSE CompareCodePoints(Tail(a), Tail(b))

\* The text of a path: its names joined by "/".
RECURSIVE PathText(_)
PathText(path) ==
    IF path = <<>> THEN <<>>
    ELSE IF Len(path) = 1 THEN path[1]
    ELSE path[1] \o <<47>> \o PathText(Tail(path))

\* String.prototype.localeCompare, in the locale of the process: texts
\* that are canonically equivalent compare as equal (0); the other texts
\* are ordered, here by the code points of their decompositions.
localeCompare(a, b) == CompareCodePoints(NFD(a), NFD(b))

\* Array.prototype.sort with the comparator of line 87: a stable sort, so
\* that paths which compare as equal stay in the order they came in.
RECURSIVE InsertByLocaleCompare(_, _)
InsertByLocaleCompare(sorted, path) ==
    IF sorted = <<>> THEN <<path>>
    ELSE IF localeCompare(PathText(sorted[Len(sorted)]), PathText(path)) <= 0
         THEN Append(sorted, path)
    ELSE Append(InsertByLocaleCompare(SubSeq(sorted, 1, Len(sorted) - 1), path),
                sorted[Len(sorted)])

RECURSIVE SortByLocaleCompare(_)
SortByLocaleCompare(paths) ==
    IF paths = <<>> THEN <<>>
    ELSE InsertByLocaleCompare(SortByLocaleCompare(SubSeq(paths, 1, Len(paths) - 1)),
                               paths[Len(paths)])

\* The bytes hash.update(text) feeds: the UTF-8 encoding of the text (of
\* code points below U+0800).
RECURSIVE Utf8(_)
Utf8(text) ==
    IF text = <<>> THEN <<>>
    ELSE IF Head(text) < 128 THEN <<Head(text)>> \o Utf8(Tail(text))
    ELSE <<192 + (Head(text) \div 64), 128 + (Head(text) % 64)>> \o Utf8(Tail(text))

\* The directory the inputs are resolved in.
RootDir == <<<<119>>>>

\* A tree below rootDir: entries gives the names in every directory,
\* contents the bytes of every file (both by absolute path).
IsDirectory(tree, path) == path \in DOMAIN tree.entries
InTree(tree, path) == path \in DOMAIN tree.entries \/ path \in DOMAIN tree.contents

\* collectAllFiles, lines 45-56; order[dir] is the list readdirSync(dir)
\* returns, and collectEntries the loop from entry i on.
RECURSIVE collectAllFiles(_, _, _), collectEntries(_, _, _, _)
collectAllFiles(tree, order, rootDir) == collectEntries(tree, order, rootDir, 1)

collectEntries(tree, order, rootDir, i) ==
    IF i > Len(order[rootDir]) THEN <<>>
    ELSE LET fullPath == Append(rootDir, order[rootDir][i])
         IN (IF IsDirectory(tree, fullPath)
             THEN collectAllFiles(tree, order, fullPath)
             ELSE <<fullPath>>)
            \o collectEntries(tree, order, rootDir, i + 1)

\* relativePath, lines 73-75.
relativePath(base, filePath) ==
    IF Len(filePath) > Len(base) /\ SubSeq(filePath, 1, Len(base)) = base
    THEN SubSeq(filePath, Len(base) + 1, Len(filePath))
    ELSE filePath

\* The four updates of lines 89-92 and 97-100: the name, a line feed, the
\* bytes of the file, a line feed.
HashUpdates(name, bytes) == Utf8(PathText(name)) \o <<10>> \o bytes \o <<10>>

RECURSIVE HashFiles(_, _, _)
HashFiles(tree, rootDir, paths) ==
    IF paths = <<>> THEN <<>>
    ELSE HashUpdates(relativePath(rootDir, Head(paths)), tree.contents[Head(paths)])
         \o HashFiles(tree, rootDir, Tail(paths))

\* computeInputsFingerprint, lines 77-103: the bytes the hash is fed, which
\* give the digest (no collisions).
RECURSIVE computeInputsFingerprint(_, _, _, _)
computeInputsFingerprint(tree, order, rootDir, inputs) ==
    IF inputs = <<>> THEN <<>>
    ELSE LET inputRel == Head(inputs)
             inputAbs == rootDir \o inputRel
             rest == computeInputsFingerprint(tree, order, rootDir, Tail(inputs))
         IN IF ~InTree(tree, inputAbs) THEN rest
            ELSE IF IsDirectory(tree, inputAbs)
                 THEN HashFiles(tree, rootDir,
                                SortByLocaleCompare(collectAllFiles(tree, order, inputAbs)))
                      \o rest
            ELSE HashUpdates(inputRel, tree.contents[inputAbs]) \o rest

\* The trees: a file r and a directory d below rootDir; in d some of the
\* files a, e-acute (composed), e-acute (decomposed), and a directory s
\* with one file.
DirD == Append(RootDir, NameD)
DirS == Append(DirD, NameS)

TreeOf(inD, withS, bytes) ==
    LET filePaths == {Append(RootDir, NameR)} \cup {Append(DirD, n) : n \in inD}
                     \cup (IF withS THEN {Append(DirS, NameA)} ELSE {})
    IN [entries |->
            [p \in {RootDir, DirD} \cup (IF withS THEN {DirS} ELSE {}) |->
                IF p = RootDir THEN {NameR, NameD}
                ELSE IF p = DirD THEN inD \cup (IF withS THEN {NameS} ELSE {})
                ELSE {NameA}],
        contents |-> [p \in filePaths |-> bytes[Len(p)][p[Len(p)]]]]

FileBytes == {<<1>>, <<2>>}

Trees ==
    {TreeOf(inD, withS, bytes) :
        inD \in SUBSET {NameA, EAcuteNFC, EAcuteNFD},
        withS \in BOOLEAN,
        bytes \in [2..4 -> [{NameR, NameA, EAcuteNFC, EAcuteNFD} -> FileBytes]]}

InputLists == SeqsUpTo({<<NameR>>, <<NameD>>, <<NameMissing>>}, MaxInputs)

\* The orders readdirSync may list the directories of a tree in.
Listings(entries) ==
    {list \in [1..Cardinality(entries) -> entries] : Range(list) = entries}

Enumerations(tree) ==
    {[d \in DOMAIN tree.entries |->
         IF d = RootDir THEN ofRoot ELSE IF d = DirD THEN ofD ELSE <<NameA>>] :
        ofRoot \in Listings(tree.entries[RootDir]),
        ofD \in Listings(tree.entries[DirD])}

InitFingerprint ==
    /\ InstallerParked /\ ResolverParked /\ BundleParked /\ PublicParked
    /\ packageManager = <<>> /\ userAgent = <<>> /\ lockMtimes = <<>>
    /\ detected = "none" /\ preview = NoPreview
    /\ libArgs \in [tree : Trees, inputs : InputLists]
    /\ libResult = <<>>

\* One run of computeInputsFingerprint(rootDir, inputs); libResult holds
\* what the runs so far fed their hash.
Fingerprint ==
    /\ Len(libResult) < MaxRuns
    /\ \E order \in Enumerations(libArgs.tree) :
          libResult' = Append(libResult,
                              computeInputsFingerprint(libArgs.tree, order, RootDir,
                                                       libArgs.inputs))
    /\ UNCHANGED <<libArgs, detectVars, preview, fsVars, installerVars, resolverVars,
                   bundleVars, publicVars>>

NextFingerprint == Fingerprint

SpecFingerprint == InitFingerprint /\ [][NextFingerprint]_vars

\* Two disks for one list of inputs.  The inputs are the files r and a
\* below rootDir, each there or not; a file holds one byte, or bytes with
\* line feeds among them.
LinesBytes == <<1, 10, 97, 10, 2>>
FlatTrees ==
    {[entries |-> [p \in {RootDir} |-> DOMAIN held],
      contents |-> [p \in {Append(RootDir, n) : n \in DOMAIN held} |-> held[p[Len(p)]]]] :
        held \in UNION {[present -> FileBytes \cup {LinesBytes}] :
                          present \in SUBSET {NameR, NameA}}}
FileInputLists == SeqsUpTo({<<NameR>>, <<NameA>>}, MaxInputs)

InitDistinct ==
    /\ InstallerParked /\ ResolverParked /\ BundleParked /\ PublicParked
    /\ packageManager = <<>> /\ userAgent = <<>> /\ lockMtimes = <<>>
    /\ detected = "none" /\ preview = NoPreview
    /\ libArgs \in [inputs : FileInputLists, left : FlatTrees, right : FlatTrees]
    /\ libResult = <<>>

\* computeInputsFingerprint(rootDir, inputs) on the one disk and on the
\* other; libResult holds what the two runs fed their hash.
FingerprintBoth ==
    /\ libResult = <<>>
    /\ libResult' =
          <<computeInputsFingerprint(libArgs.left, [d \in {RootDir} |-> <<>>], RootDir,
                                     libArgs.inputs),
            computeInputsFingerprint(libArgs.right, [d \in {RootDir} |-> <<>>], RootDir,
                                     libArgs.inputs)>>
    /\ UNCHANGED <<libArgs, detectVars, preview, fsVars, installerVars, resolverVars,
                   bundleVars, publicVars>>

NextDistinct == FingerprintBoth

SpecDistinct == InitDistinct /\ [][NextDistinct]_vars

\* --------------------------------------------------------------------------
\* buildRegistryArtifacts.  A path is relative to rootDir; the content of a
\* file is the JSON value its text holds, or the text when it holds none.
\* --------------------------------------------------------------------------

\* resolve(rootDir, artifactRoot) and the two files of lines 454-455, with
\* the defaults of lines 387-391.
ArtifactRoot == <<"dist", "artifacts">>
ManifestPath == ArtifactRoot \o <<"artifact-manifest.json">>
FingerprintPath == ArtifactRoot \o <<"fingerprint.sha256">>

\* A file that holds no JSON, and the content of the fingerprint file.
Text(chars) == [t |-> "text", s |-> chars]
Digest(hashed) == [t |-> "digest", of |-> hashed]

\* fullPath.endsWith(".json"), line 64, on the file names of the model.
JsonNames == {"a.json", "old.json", "artifact-manifest.json"}
IsJsonFile(p) == p # <<>> /\ p[Len(p)] \in JsonNames

\* existsSync
PathExists(f, ds, p) == p \in DOMAIN f \/ p \in ds

\* The files and the directories at a path and below it.
FilesUnder(f, p) == {q \in DOMAIN f : startsWith(q, p)}
DirsUnder(ds, p) == {d \in ds : startsWith(d, p)}

\* String.prototype.trim, for the blank as the white space.
RECURSIVE trimStart(_)
trimStart(str) ==
    IF str # <<>> /\ Head(str) = " " THEN trimStart(Tail(str)) ELSE str
RECURSIVE dropLast(_, _)
dropLast(str, char) ==
    IF str # <<>> /\ str[Len(str)] = char
    THEN dropLast(SubSeq(str, 1, Len(str) - 1), char) ELSE str
trim(str) == dropLast(trimStart(str), " ")

\* normalizeOrigin, lines 36-43: raw is <<>> (undefined) or the one string.
normalizeOrigin(raw, defaultOrigin) ==
    LET value == trim(IF raw = <<>> THEN defaultOrigin ELSE raw[1])
    IN IF startsWith(value, Http) \/ startsWith(value, Https)
       THEN [threw |-> FALSE, origin |-> dropLast(value, "/")]
       ELSE [threw |-> TRUE, origin |-> <<>>]

\* The first entry of requiredPaths that makes lines 420-430 throw, as the
\* error thrown ("none" when the loop ends).
RequiredFailure(f, ds, requiredPaths) ==
    FirstFailure([i \in DOMAIN requiredPaths |->
        IF requiredPaths[i].kind = "invalid" THEN "invalid required path"
        ELSE IF ~PathExists(f, ds, requiredPaths[i].path) THEN "required path not found"
        ELSE "none"])

\* resetDir, lines 23-26, on the disk: nothing is left below the path, and
\* the directory is there.
resetDirFiles_Keep(f, path) == f
resetDirFiles(f, path) == [q \in DOMAIN f \ FilesUnder(f, path) |-> f[q]]
resetDirDirs(ds, path) == (ds \ DirsUnder(ds, path)) \cup Prefixes(path)

\* cpSync(from, to, { recursive: true, force: true }), line 442.
Moved(q, from, to) == to \o SubSeq(q, Len(from) + 1, Len(q))
cpSyncFiles(f, from, to) ==
    [q \in DOMAIN f \cup {Moved(s, from, to) : s \in FilesUnder(f, from)} |->
        IF \E s \in FilesUnder(f, from) : Moved(s, from, to) = q
        THEN f[CHOOSE s \in FilesUnder(f, from) : Moved(s, from, to) = q]
        ELSE f[q]]
cpSyncDirs(ds, from, to) ==
    ds \cup Prefixes(to) \cup {Moved(d, from, to) : d \in DirsUnder(ds, from)}

\* collectJsonFiles, lines 58-71.
collectJsonFiles(f, dir) == {q \in FilesUnder(f, dir) : Len(q) > Len(dir) /\ IsJsonFile(q)}

\* The files of a set rewritten, lines 137-141.
RewrittenFiles(f, which, fromOrigin, toOrigin) ==
    [q \in DOMAIN f |->
        IF q \in which THEN rewriteOriginValue(f[q], fromOrigin, toOrigin) ELSE f[q]]

\* rewriteOriginsInDir, lines 126-148: the ways it can end.  It throws when
\* the directory cannot be listed, and at the first file that holds no
\* JSON, with the files read before that one rewritten.
rewriteOriginsInDir(f, ds, dir, fromOrigin, toOrigin) ==
    IF dir \notin ds THEN {[threw |-> TRUE, files |-> f]}
    ELSE LET found == collectJsonFiles(f, dir)
             good == {q \in found : f[q].t # "text"}
         IN IF good # found
            THEN {[threw |-> TRUE, files |-> RewrittenFiles(f, done, fromOrigin, toOrigin)]
                  : done \in SUBSET good}
            ELSE {[threw |-> FALSE, files |-> RewrittenFiles(f, found, fromOrigin, toOrigin)]}

\* computeInputsFingerprint, lines 77-103, for inputs that are files: what
\* the hash is fed, the path and the content of every input that exists.
InputsHashed(f, inputs) ==
    LET exists(p) == p \in DOMAIN f
    IN [i \in DOMAIN SelectSeq(inputs, exists) |->
           <<SelectSeq(inputs, exists)[i], f[SelectSeq(inputs, exists)[i]]>>]

\* The call has thrown.
ArtifactsThrew(error) == [artifactRun EXCEPT !.pc = "threw", !.error = error]

\* buildRegistryArtifacts(options), lines 384-407: the call, and the checks
\* of rootDir and of the manifest.  No hook is given.
buildRegistryArtifacts ==
    /\ artifactRun.pc = "called"
    /\ artifactRun' =
          IF artifactRun.options.rootDir = "" THEN ArtifactsThrew("requires rootDir")
          ELSE IF artifactRun.options.manifest.t \notin {"object", "array"}
          THEN ArtifactsThrew("requires manifest")
          ELSE [artifactRun EXCEPT !.pc = "ensure"]
    /\ UNCHANGED <<publicDirVars, hasLocalShadcn, ready, fresh, freshTick, fsVars,
                   installerVars, resolverVars, bundleVars, cliVars>>

\* Lines 413-418: the public registry is made ready when the options ask
\* for it.
ArtifactsEnsureReady ==
    /\ artifactRun.pc = "ensure"
    /\ IF ~artifactRun.options.ensurePublicRegistry
       THEN /\ artifactRun' = [artifactRun EXCEPT !.pc = "required"]
            /\ UNCHANGED <<publicDirVars, ready>>
       ELSE \E r \in ReadyRuns(registryJson, sourceFiles, hasLocalShadcn,
                                [index |-> publicRegistry, artifacts |-> publicItemJson]) :
               /\ ready' = [outcome |-> r.outcome, builds |-> r.builds, error |-> r.error]
               /\ publicRegistry' = r.pub.index
               /\ publicItemJson' = r.pub.artifacts
               /\ artifactRun' = IF r.outcome = "threw"
                                 THEN ArtifactsThrew("public registry not ready")
                                 ELSE [artifactRun EXCEPT !.pc = "required"]
    /\ UNCHANGED <<hasLocalShadcn, fresh, freshTick, fsVars, installerVars,
                   resolverVars, bundleVars, cliVars>>

\* Lines 420-430: every required path exists.
ArtifactsRequiredPaths ==
    /\ artifactRun.pc = "required"
    /\ LET failure == RequiredFailure(files, dirs, artifactRun.options.requiredPaths)
       IN artifactRun' = IF failure # "none" THEN ArtifactsThrew(failure)
                         ELSE [artifactRun EXCEPT !.pc = "origin"]
    /\ UNCHANGED <<publicDirVars, hasLocalShadcn, ready, fresh, freshTick, fsVars,
                   installerVars, resolverVars, bundleVars, cliVars>>

\* Line 432: the origin.
ArtifactsOrigin ==
    /\ artifactRun.pc = "origin"
    /\ LET n == normalizeOrigin(artifactRun.options.originRaw, DEFAULT_REGISTRY_ORIGIN)
       IN artifactRun' = IF n.threw THEN ArtifactsThrew("invalid origin")
                         ELSE [artifactRun EXCEPT !.pc = "reset", !.origin = n.origin]
    /\ UNCHANGED <<publicDirVars, hasLocalShadcn, ready, fresh, freshTick, fsVars,
                   installerVars, resolverVars, bundleVars, cliVars>>

\* Lines 433-434: the artifact directory is wiped.
ArtifactsResetDir ==
    /\ artifactRun.pc = "reset"
    /\ files' = resetDirFiles(files, ArtifactRoot)
    /\ dirs' = resetDirDirs(dirs, ArtifactRoot)
    /\ artifactRun' = [artifactRun EXCEPT !.pc = "copy", !.i = 1]
    /\ UNCHANGED <<tmps, publicDirVars, hasLocalShadcn, ready, fresh, freshTick,
                   installerVars, resolverVars, bundleVars, cliVars>>

\* Lines 436-443: one entry of copyDirs, and the end of the loop.
ArtifactsCopy ==
    /\ artifactRun.pc = "copy"
    /\ LET copyDirs == artifactRun.options.copyDirs
           entry == copyDirs[artifactRun.i]
       IN IF artifactRun.i > Len(copyDirs)
          THEN /\ artifactRun' = [artifactRun EXCEPT !.pc = "rewrite", !.i = 1]
               /\ UNCHANGED <<files, dirs>>
          ELSE IF entry.kind = "invalid"
          THEN /\ artifactRun' = ArtifactsThrew("invalid copy entry")
               /\ UNCHANGED <<files, dirs>>
          ELSE IF ~PathExists(files, dirs, entry.from)
          THEN /\ artifactRun' = ArtifactsThrew("copy failed")
               /\ UNCHANGED <<files, dirs>>
          ELSE /\ files' = cpSyncFiles(files, entry.from, ArtifactRoot \o entry.to)
               /\ dirs' = cpSyncDirs(dirs, entry.from, ArtifactRoot \o entry.to)
               /\ artifactRun' = [artifactRun EXCEPT !.i = @ + 1]
    /\ UNCHANGED <<tmps, publicDirVars, hasLocalShadcn, ready, fresh, freshTick,
                   installerVars, resolverVars, bundleVars, cliVars>>

\* Lines 445-450: one entry of rewriteDirs, and the end of the loop.
ArtifactsRewrite ==
    /\ artifactRun.pc = "rewrite"
    /\ LET rewriteDirs == artifactRun.options.rewriteDirs
       IN IF artifactRun.i > Len(rewriteDirs)
          THEN /\ artifactRun' = [artifactRun EXCEPT !.pc = "manifest"]
               /\ UNCHANGED files
          ELSE \E r \in rewriteOriginsInDir(files, dirs, ArtifactRoot \o rewriteDirs[artifactRun.i],
                                            DEFAULT_REGISTRY_ORIGIN, artifactRun.origin) :
                  /\ files' = r.files
                  /\ artifactRun' = IF r.threw THEN ArtifactsThrew("rewrite failed")
                                    ELSE [artifactRun EXCEPT !.i = @ + 1]
    /\ UNCHANGED <<dirs, tmps, publicDirVars, hasLocalShadcn, ready, fresh, freshTick,
                   installerVars, resolverVars, bundleVars, cliVars>>

\* Lines 452-457: the fingerprint is computed and the manifest written.
ArtifactsWriteManifest ==
    /\ artifactRun.pc = "manifest"
    /\ files' = WriteFile(files, ManifestPath, artifactRun.options.manifest)
    /\ artifactRun' = [artifactRun EXCEPT !.pc = "fingerprint",
                          !.fingerprint = Digest(InputsHashed(files, artifactRun.options.inputs))]
    /\ UNCHANGED <<dirs, tmps, publicDirVars, hasLocalShadcn, ready, fresh, freshTick,
                   installerVars, resolverVars, bundleVars, cliVars>>

\* Lines 458-466: the fingerprint file is written and the call returns.
ArtifactsWriteFingerprint ==
    /\ artifactRun.pc = "fingerprint"
    /\ files' = WriteFile(files, FingerprintPath, artifactRun.fingerprint)
    /\ artifactRun' = [artifactRun EXCEPT !.pc = "returned"]
    /\ UNCHANGED <<dirs, tmps, publicDirVars, hasLocalShadcn, ready, fresh, freshTick,
                   installerVars, resolverVars, bundleVars, cliVars>>

\* The options of the call.
RequiredPathLists ==
    {<<>>,
     <<[kind |-> "string", path |-> <<"req">>]>>,
     <<[kind |-> "object", path |-> <<"src">>], [kind |-> "string", path |-> <<"req">>]>>,
     <<[kind |-> "invalid", path |-> <<>>]>>}
CopyDirLists ==
    {<<>>,
     <<[kind |-> "object", from |-> <<"src">>, to |-> <<"r">>]>>,
     <<[kind |-> "object", from |-> <<"src">>, to |-> <<"r">>],
       [kind |-> "object", from |-> <<"gone">>, to |-> <<"g">>]>>,
     <<[kind |-> "object", from |-> <<"src">>, to |-> <<"r">>],
       [kind |-> "invalid", from |-> <<>>, to |-> <<>>]>>}
RewriteDirLists == {<<>>, <<<<"r">>>>, <<<<"r">>, <<"x">>>>}
OriginRaws ==
    {<<>>, <<<<" ">> \o OtherOrigin \o <<"/", "/">>>>, <<<<"f", "t", "p">> \o OtherOrigin>>}
ManifestValues ==
    {VLeaf("undefined"), VStr(<<"m">>), VObj(<<[k |-> <<"k">>, v |-> VStr(<<"x">>)]>>)}
ArtifactOptions ==
    [rootDir : {"", "root"},
     manifest : ManifestValues,
     inputs : {<<<<"req">>, <<"none">>>>},
     ensurePublicRegistry : BOOLEAN,
     requiredPaths : RequiredPathLists,
     copyDirs : CopyDirLists,
     rewriteDirs : RewriteDirLists,
     originRaw : OriginRaws]

\* The disk: the directory src with a JSON file (or one that holds no
\* JSON) and a text file, the file req or not, and the artifact directory
\* of an earlier build or none.
SrcJsonValues ==
    {VObj(<<[k |-> <<"k">>, v |-> VStr(DEFAULT_REGISTRY_ORIGIN \o <<"/", "r">>)]>>),
     Text(<<"{">>)}
OldArtifacts ==
    [p \in {ArtifactRoot \o <<"r", "old.json">>, ManifestPath, FingerprintPath} |->
        IF p = FingerprintPath THEN Digest(<<>>) ELSE VObj(<<>>)]
ArtifactDisks ==
    {[fs |-> src @@ req @@ old.fs,
      ds |-> {<<>>, <<"src">>} \cup old.ds] :
        src \in {[p \in {<<"src", "a.json">>, <<"src", "t.txt">>} |->
                    IF p = <<"src", "a.json">> THEN v ELSE Text(DEFAULT_REGISTRY_ORIGIN)]
                 : v \in SrcJsonValues},
        req \in {<<>>, [p \in {<<"req">>} |-> Text(<<"q">>)]},
        old \in {[fs |-> <<>>, ds |-> {}],
                 [fs |-> OldArtifacts, ds |-> Prefixes(ArtifactRoot \o <<"r">>)]}}

\* The public registry of the call: a source of one item, published or not.
ArtifactSource == [kind |-> "json", items |-> <<[name |-> <<"a">>, dependencies |-> <<>>,
                                                  registryDependencies |-> <<>>,
                                                  files |-> <<>>]>>]

InitArtifacts ==
    /\ \E disk \in ArtifactDisks, options \in ArtifactOptions :
          /\ files = disk.fs /\ dirs = disk.ds
          /\ artifactRun = [pc |-> "called", options |-> options, origin |-> <<>>, i |-> 0,
                            error |-> "", fingerprint |-> Digest(<<>>),
                            preFiles |-> disk.fs, preDirs |-> disk.ds]
    /\ tmps = {}
    /\ InitInstaller /\ ResolverParked /\ CliParked
    /\ bundleFile = AbsentFile /\ bundleTmp = AbsentFile
    /\ BundlerAtRest /\ LoaderAtRest
    /\ registryJson = ArtifactSource
    /\ sourceFiles = <<>>
    /\ bundlerConfig = [peerDeps |-> {}, coreDeps |-> {}]
    /\ \E pub \in {resetDir, Published(ArtifactSource, <<>>)} :
          publicRegistry = pub.index /\ publicItemJson = pub.artifacts
    /\ hasLocalShadcn \in BOOLEAN
    /\ ready = NoReady /\ fresh = "none" /\ freshTick = FALSE

NextArtifacts ==
    \/ buildRegistryArtifacts
    \/ ArtifactsEnsureReady
    \/ ArtifactsRequiredPaths
    \/ ArtifactsOrigin
    \/ ArtifactsResetDir
    \/ ArtifactsCopy
    \/ ArtifactsRewrite
    \/ ArtifactsWriteManifest
    \/ ArtifactsWriteFingerprint

SpecArtifacts == InitArtifacts /\ [][NextArtifacts]_vars

\* --------------------------------------------------------------------------
\* The resolver on the registries the builder accepts
\* --------------------------------------------------------------------------

\* The references of these registries: local names, URLs, and references in
\* the namespace syntax.
AllRefs == Refs \cup NamespacedRefs

AllEdgeLists ==
    {es \in SeqsUpTo(Items \X AllRefs, MaxEdges) :
        \A i, j \in DOMAIN es :
            i < j => IndexOf(ItemNames, es[i][1]) <= IndexOf(ItemNames, es[j][1])}

\* The items of a registry as the list the builder reads.
ItemList(reg) ==
    LET isThere(n) == n \in DOMAIN reg
    IN [i \in DOMAIN SelectSeq(ItemNames, isThere) |-> reg[SelectSeq(ItemNames, isThere)[i]]]

\* createBundler, lines 165-185: the validation lets the items through.
BuilderAccepts(reg) ==
    ~DuplicateNames(ItemList(reg)) /\ ~MissingLocalDependency(ItemList(reg))

\* The bundle of a registry the builder accepts, and a request for items
\* of that bundle.
InitAgree ==
    /\ InstallerParked /\ BundleParked /\ PublicParked /\ CliParked
    /\ \E es \in AllEdgeLists, present \in SUBSET Items :
          /\ \A i \in DOMAIN es : es[i][1] \in present
          /\ registry = RegistryOf(present, es)
    /\ BuilderAccepts(registry)
    /\ names \in SeqsUpTo(DOMAIN registry, MaxNames)
    /\ resolveOutcome = "none"
    /\ resolveResult = [resolved |-> <<>>, stack |-> <<>>, lookups |-> <<>>, error |-> NoError]

NextAgree == Resolve

SpecAgree == InitAgree /\ [][NextAgree]_vars

\* --------------------------------------------------------------------------
\* Properties of the installer
\* --------------------------------------------------------------------------

\* The file operations name pairwise distinct target paths.
DistinctTargets ==
    \A i, j \in DOMAIN fileOps :
        fileOps[i].targetPath = fileOps[j].targetPath => i = j

\* The paths the call has created (newFiles) or was about to overwrite (backups).
Touched == Range(newFiles) \cup {backups[i].path : i \in DOMAIN backups}

\* Path p is as it was when the call began: absent again, or the same bytes.
Restored(p) ==
    /\ p \in DOMAIN files <=> p \in DOMAIN preFiles
    /\ p \in DOMAIN files => files[p] = preFiles[p]

\* The bytes b are the UTF-8 encoding of a string.
IsUTF8(b) == UTF8Encode(UTF8Decode(b)) = b

\* C1: when writeFilesWithRollback, given pairwise distinct targets, has
\* thrown and no rollback step failed, every target it created is absent
\* again and every target it overwrote holds the bytes it held before the call.
C1_RollbackRestoresFiles ==
    (outcome = "write-threw" /\ DistinctTargets /\ ~rb.rollbackFailed)
        => \A p \in Touched : Restored(p)

\* C1, for text files: the same, when the files that were there before the
\* call are valid UTF-8.
C1_RollbackRestoresTextFiles ==
    (/\ outcome = "write-threw" /\ DistinctTargets /\ ~rb.rollbackFailed
     /\ \A p \in DOMAIN preFiles : IsUTF8(preFiles[p]))
        => \A p \in Touched : Restored(p)

\* C1's case: a call that wrote a new file and overwrote another, with
\* distinct targets, has thrown after a rollback without failures.
C1_Witness ==
    /\ outcome = "write-threw" /\ DistinctTargets /\ ~rb.rollbackFailed
    /\ newFiles # <<>> /\ backups # <<>>
    /\ \A p \in DOMAIN preFiles : IsUTF8(preFiles[p])

\* C2: when writeFilesWithRollback has thrown (no rollback step having
\* failed), no directory that did not exist before the call is left empty.
C2_NoEmptyNewDirs ==
    (outcome = "write-threw" /\ ~rb.rollbackFailed)
        => \A d \in dirs \ preDirs : ~DirIsEmpty(d, files, dirs, tmps)

\* C3: when installDepsWithRollback has thrown (no rollback step having
\* failed), every file of the write phase is as before the write phase; when
\* it has returned, the files are those the write phase left.
C3_InstallFailureRollsBack ==
    /\ (outcome = "install-threw" /\ ~rb.rollbackFailed)
          => \A p \in Touched : Restored(p)
    /\ outcome = "install-returned" => rb = NoRollback

\* C10: a call with overwrite = false that repeats the file operations of the
\* call that returned just before it never changes a file, does not throw, and
\* returns written = 0, overwritten = 0 and skipped = the number of operations.
C10_SecondPassSkipsAll ==
    (repeat /\ ~overwrite) =>
        /\ files = preFiles
        /\ outcome # "write-threw"
        /\ outcome = "write-returned" =>
              written = 0 /\ overwritten = 0 /\ skipped = Len(fileOps)

\* C10's case: such a second pass over at least two operations has returned.
C10_Witness ==
    /\ repeat /\ ~overwrite /\ outcome = "write-returned"
    /\ Len(fileOps) >= 2 /\ skipped = Len(fileOps)

\* The paths the backups list holds.
BackupPaths == {backups[i].path : i \in DOMAIN backups}

\* With overwrite = false, operation j finds its target existing: it was
\* there before the call, or an earlier operation of the call created it.
FoundExisting(j) ==
    \/ fileOps[j].targetPath \in DOMAIN preFiles
    \/ \E k \in 1..(j - 1) : fileOps[k].targetPath = fileOps[j].targetPath

\* C11 (amended): with overwrite = false, every operation that finds its
\* target existing is counted as skipped and raises no error; a target that
\* existed before the call keeps its content and is in neither newFiles nor
\* backups, at every point of the call, of its rollback and of the rollback
\* after a failed install.
C11_SkipKeepsExisting ==
    ~overwrite =>
        /\ \A j \in DOMAIN fileOps :
              LET p == fileOps[j].targetPath
              IN p \in DOMAIN preFiles =>
                    /\ p \in DOMAIN files /\ files[p] = preFiles[p]
                    /\ ~Includes(newFiles, p)
                    /\ p \notin BackupPaths
        /\ pc = "loop" =>
              skipped = Cardinality({j \in 1..(idx - 1) : FoundExisting(j)})
        /\ outcome = "write-threw" => idx \in DOMAIN fileOps /\ ~FoundExisting(idx)

\* C11's case: a call with overwrite = false that skipped a target that was
\* there before and wrote a new file; the install failed and rolled back.
C11_Witness ==
    /\ ~overwrite /\ outcome = "install-threw" /\ rb.caller = "install"
    /\ newFiles # <<>> /\ skipped > 0
    /\ \E j \in 1..(idx - 1) : fileOps[j].targetPath \in DOMAIN preFiles

\* C11 as stated: with overwrite = false, the target of an operation that
\* found it existing is still there after every rollback of the call.
C11_SkippedNeverDeleted ==
    (~overwrite /\ outcome \in {"write-threw", "install-threw"}) =>
        \A j \in 1..(idx - 1) :
            FoundExisting(j) => fileOps[j].targetPath \in DOMAIN files

\* The write of the loop's operation has put the new content in place.
WriteLanded ==
    /\ wfs.caller = "write"
    /\ pc = "wfsRename" /\ pc' = "wfsReturn"

\* C12: with overwrite = true, when the content of an existing target is
\* replaced, the backups list already holds an entry with the target's path
\* and the content the target has just before the write; a target that does
\* not exist gets no backup and is recorded in newFiles once written.
C12_BackupBeforeOverwrite ==
    [][overwrite =>
        /\ (WriteLanded /\ wfs.filePath \in DOMAIN files) =>
              \E i \in DOMAIN backups :
                  /\ backups[i].path = wfs.filePath
                  /\ UTF8Encode(backups[i].content) = files[wfs.filePath]
        /\ (WriteLanded /\ wfs.filePath \notin DOMAIN files) =>
              ~wfs.exists /\ wfs.filePath \notin BackupPaths
        /\ (pc = "loop" /\ pc' = "writeFileSafe"
              /\ fileOps[idx].targetPath \notin DOMAIN files) => backups' = backups
        /\ (pc = "wfsReturn" /\ wfs.caller = "write" /\ ~wfs.exists
              /\ wfs.result = "written") =>
              newFiles' = Append(newFiles, wfs.filePath) /\ backups' = backups]_vars

\* C12, for text files: the same, when the files that were there before the
\* call are valid UTF-8.
C12_BackupBeforeOverwriteText ==
    [][(overwrite /\ \A p \in DOMAIN preFiles : IsUTF8(preFiles[p])) =>
        /\ (WriteLanded /\ wfs.filePath \in DOMAIN files) =>
              \E i \in DOMAIN backups :
                  /\ backups[i].path = wfs.filePath
                  /\ UTF8Encode(backups[i].content) = files[wfs.filePath]
        /\ (WriteLanded /\ wfs.filePath \notin DOMAIN files) =>
              ~wfs.exists /\ wfs.filePath \notin BackupPaths
        /\ (pc = "loop" /\ pc' = "writeFileSafe"
              /\ fileOps[idx].targetPath \notin DOMAIN files) => backups' = backups
        /\ (pc = "wfsReturn" /\ wfs.caller = "write" /\ ~wfs.exists
              /\ wfs.result = "written") =>
              newFiles' = Append(newFiles, wfs.filePath) /\ backups' = backups]_vars

\* An existing target has been overwritten and a new one written.
C12_Witness ==
    /\ overwrite /\ pc = "loop"
    /\ overwritten > 0 /\ written > 0
    /\ \A p \in DOMAIN preFiles : IsUTF8(preFiles[p])

\* The log holds one attempt for every backup, in order, then one for every
\* new file, in order, then the directory cleanup.
RollbackComplete(log) ==
    /\ Len(log) = Len(backups) + Len(newFiles) + 1
    /\ \A k \in 1..Len(backups) : log[k].step = "restore" /\ log[k].i = k
    /\ \A k \in 1..Len(newFiles) :
          log[Len(backups) + k].step = "delete" /\ log[Len(backups) + k].i = k
    /\ log[Len(log)].step = "clean"

\* C13: the error the catch block holds is not replaced while rollbackFiles
\* runs; when writeFilesWithRollback throws, it throws "Failed to write
\* files: " + the message of that error, and a rollback that ran has then
\* attempted every restore, every deletion and the cleanup, whichever of them
\* failed; an attempt that did not fail has restored or removed its file.
C13_RollbackBestEffort ==
    [][/\ (pc = "catch" \/ (rb.caller = "write" /\ pc # "idle")) => caught' = caught
       /\ (outcome # "write-threw" /\ outcome' = "write-threw") =>
             /\ thrown' = <<"Failed to write files: ", caught>>
             /\ rb.caller = "write" => RollbackComplete(rollbackLog')
       /\ (rb.caller = "write" /\ Len(rollbackLog') > Len(rollbackLog)) =>
             LET e == rollbackLog'[Len(rollbackLog')]
             IN /\ (e.step = "restore" /\ e.ok) =>
                      /\ backups[e.i].path \in DOMAIN files'
                      /\ files'[backups[e.i].path] = UTF8Encode(backups[e.i].content)
                /\ (e.step = "delete" /\ e.ok) => newFiles[e.i] \notin DOMAIN files'
      ]_vars

\* C13's case: writeFilesWithRollback has thrown after a rollback in which a
\* step failed and a later restore or deletion went through, the failure of
\* the rollback step being another one than the failure of the write.
C13_Witness ==
    /\ outcome = "write-threw" /\ rb.caller = "write" /\ rb.rollbackFailed
    /\ caught = "read failed"
    /\ \E k, l \in DOMAIN rollbackLog :
          /\ k < l /\ ~rollbackLog[k].ok
          /\ rollbackLog[l].ok /\ rollbackLog[l].step # "clean"

\* --------------------------------------------------------------------------
\* Properties of the resolver
\* --------------------------------------------------------------------------

\* The graph of local references, read off the registry: a reference with a
\* URL scheme is no edge.
LocalDeps(n) ==
    IF n \in DOMAIN registry
    THEN Range(registry[n].registryDependencies) \ UrlRefs
    ELSE {}

\* The names reachable from the set S through local references.
RECURSIVE Closure(_)
Closure(S) ==
    LET more == S \cup UNION {LocalDeps(n) : n \in S}
    IN IF more = S THEN S ELSE Closure(more)

Reach == Closure(Range(names))
Cyclic == \E n \in Reach : n \in Closure(LocalDeps(n))
FullyPresent == Reach \subseteq DOMAIN registry

NoDuplicates(s) == \A i, j \in DOMAIN s : s[i] = s[j] => i = j

\* C4: on an acyclic graph whose reachable names are all present, the call
\* returns exactly the reachable names, each once, every item after all its
\* local dependencies; no URL reference is looked up or returned.
C4_ResolveClosureInOrder ==
    (resolveOutcome # "none" /\ ~Cyclic /\ FullyPresent) =>
        LET res == resolveResult.resolved
        IN /\ resolveOutcome = "returned"
           /\ Range(res) = Reach
           /\ NoDuplicates(res)
           /\ \A i \in DOMAIN res :
                 \A d \in LocalDeps(res[i]) : \E j \in 1..(i - 1) : res[j] = d
           /\ \A u \in UrlRefs :
                 ~Includes(res, u) /\ ~Includes(resolveResult.lookups, u)

\* C4's case: three items are returned, one of them shared by the two others
\* or reached twice.
C4_Witness ==
    /\ resolveOutcome = "returned" /\ Len(resolveResult.resolved) = 3
    /\ \E n \in DOMAIN registry : Cardinality(LocalDeps(n)) = 2

\* C4's case with a cross-registry reference: an item that has both an http
\* and an https reference is resolved.
C4_WitnessUrl ==
    /\ resolveOutcome = "returned" /\ Len(resolveResult.resolved) = 2
    /\ \E n \in Range(resolveResult.resolved) :
          UrlRefs \subseteq Range(registry[n].registryDependencies)

\* The path the circular-dependency error reports is one cycle of the graph:
\* it ends with the name it starts with, names no item twice in between, and
\* every name but the last is followed by one of its local dependencies.
IsCycleOfGraph(p) ==
    /\ Len(p) >= 2 /\ p[1] = p[Len(p)]
    /\ NoDuplicates(SubSeq(p, 1, Len(p) - 1))
    /\ \A i \in 1..(Len(p) - 1) : p[i + 1] \in LocalDeps(p[i])
    /\ p[1] \in Reach

\* C5: when a cycle is reachable the call throws; the error is the circular
\* one unless a missing item was met (never, when all reachable names are
\* present), and the path it reports is one cycle of the graph.
C5_CycleReported ==
    (resolveOutcome # "none" /\ Cyclic) =>
        LET err == resolveResult.error
        IN /\ resolveOutcome = "threw"
           /\ err.kind \in {"circular", "missing"}
           /\ FullyPresent => err.kind = "circular"
           /\ err.kind = "missing" => err.name \notin DOMAIN registry
           /\ err.kind = "circular" => IsCycleOfGraph(err.path)

\* C5's case: a cycle of two items is reported while a third item, which
\* led to it, is on the stack.
C5_Witness ==
    /\ resolveOutcome = "threw" /\ resolveResult.error.kind = "circular"
    /\ Len(resolveResult.error.path) = 3
    /\ Len(resolveResult.stack) = 3

\* C6: when a reachable name is missing the call throws, with the missing
\* error when no cycle is reachable; the error names an item that is not in
\* the registry, and names as requester the visited item that lists it, or,
\* when none, the name was requested and no earlier request leads to it.
C6_MissingReported ==
    LET err == resolveResult.error
    IN /\ (resolveOutcome # "none" /\ ~FullyPresent) =>
            /\ resolveOutcome = "threw"
            /\ ~Cyclic => err.kind = "missing"
       /\ err.kind = "missing" =>
            /\ resolveOutcome = "threw"
            /\ err.name \notin DOMAIN registry
            /\ IF err.requester = <<>>
               THEN \E k \in DOMAIN names :
                       /\ names[k] = err.name
                       /\ \A j \in 1..(k - 1) : err.name \notin Closure({names[j]})
               ELSE /\ Includes(resolveResult.lookups, err.requester[1])
                    /\ err.name \in LocalDeps(err.requester[1])

\* C6's cases: a missing item reached through the second item of a chain,
\* and a missing item that was requested.
C6_Witness ==
    /\ resolveResult.error.kind = "missing"
    /\ resolveResult.error.requester # <<>>
    /\ Len(resolveResult.stack) = 2

C6_WitnessDirect ==
    /\ resolveResult.error.kind = "missing"
    /\ resolveResult.error.requester = <<>>
    /\ Len(resolveResult.resolved) = 1

\* --------------------------------------------------------------------------
\* Properties of the bundle loader and of the bundler's integrity
\* --------------------------------------------------------------------------

\* C7: once a call of the loader has succeeded, the cache never changes
\* again (it is populated at most once), and every later call returns the
\* cached bundle without reading the file, whatever has become of the file.
C7_CacheServedForever ==
    [][cached # <<>> =>
        /\ cached' = cached
        /\ loadTick' # loadTick =>
              /\ loadResult' = [kind |-> "returned", value |-> cached]
              /\ loadRead' = FALSE]_vars

\* A call served from the cache while the file is no longer the cached bundle.
C7_Witness ==
    /\ cached # <<>>
    /\ loadResult = [kind |-> "returned", value |-> cached]
    /\ loadRead = FALSE
    /\ bundleFile # JsonFile(cached[1])

\* C8: a call that finds a bundle the schema accepts, with a non-empty
\* integrity, returns (and caches) that bundle exactly when the integrity
\* equals "sha256-" + the digest of the JSON text of the integrity content;
\* otherwise it throws the integrity error and caches nothing.
C8_IntegrityGate ==
    [][(/\ loadTick' # loadTick
        /\ cached = <<>>
        /\ bundleFile.kind = "json"
        /\ bundleSchema(bundleFile.value)
        /\ Get(bundleFile.value, "items").t = "array"
        /\ HasKey(bundleFile.value, "integrity")
        /\ Get(bundleFile.value, "integrity").s # "")
       => IF Get(bundleFile.value, "integrity")
               = Sha256Integrity(JSONstringify(Omit(bundleFile.value, "integrity")))
          THEN /\ loadResult' = [kind |-> "returned", value |-> <<bundleFile.value>>]
               /\ cached' = <<bundleFile.value>>
          ELSE /\ loadResult' = [kind |-> "integrity", value |-> <<>>]
               /\ cached' = <<>>]_vars

\* A call that threw the integrity error on a bundle with a wrong integrity.
C8_Witness ==
    /\ loadResult.kind = "integrity"
    /\ cached = <<>>
    /\ loadRead
    /\ bundleFile.kind = "json"
    /\ HasKey(bundleFile.value, "integrity")

\* C14: a step of a bundler run leaves the file at the output path as it
\* was or puts the complete new bundle there, also when the step fails or the
\* process dies; the output file is never a truncated one.
C14_OutputNeverPartial ==
    [][/\ bpc' # bpc =>
             \/ bundleFile' = bundleFile
             \/ bundleFile' = bundlerRun.bundleJson /\ bundleFile'.kind = "json"
       /\ bundleFile'.kind # "truncated"]_vars

\* A run has died in the write and left a truncated temporary file next to
\* the complete bundle of the run before it.
C14_Witness ==
    /\ bpc = "idle" /\ bundleTmp = TruncatedFile
    /\ built /\ bundleFile.kind = "json" /\ bundleFile # bundlerRun.bundleJson

\* C9: for every bundle file as the bundler wrote it, the digest over the
\* written bundle without its integrity member is the integrity it stores.
C9_RoundTrip ==
    built =>
        Get(bundleFile.value, "integrity")
            = Sha256Integrity(JSONstringify(Omit(bundleFile.value, "integrity")))

\* The same for the runs whose extra content has no member named integrity.
C9_RoundTripNoIntegrityKey ==
    (built /\ ~HasKey(bundlerRun.extra, "integrity")
           /\ bundleFile = bundlerRun.bundleJson) =>
        Get(bundleFile.value, "integrity")
            = Sha256Integrity(JSONstringify(Omit(bundleFile.value, "integrity")))

\* A written bundle whose extra content had a member named items.
C9_WitnessItemsKey ==
    built /\ bundleFile = bundlerRun.bundleJson /\ HasKey(bundlerRun.extra, "items")
          /\ ~HasKey(bundlerRun.extra, "integrity")

\* --------------------------------------------------------------------------
\* Properties of the bundler over the source registries
\* --------------------------------------------------------------------------

\* The source definition is missing, unparsable or schema-invalid, two items
\* share a name, a local registryDependencies entry names no item, or a
\* declared file is not on the disk.
SourceInvalid ==
    LET its == registryJson.items
        regDeps(i) == IF its[i].registryDependencies = <<>> THEN <<>>
                      ELSE its[i].registryDependencies[1]
        isLocal(d) == ~startsWith(d, Http) /\ ~startsWith(d, Https) /\ d \notin NamespacedRefs
    IN \/ registryJson.kind # "json"
       \/ \E i, j \in DOMAIN its : i # j /\ its[i].name = its[j].name
       \/ \E i \in DOMAIN its : \E d \in Range(regDeps(i)) :
              isLocal(d) /\ d \notin {its[j].name : j \in DOMAIN its}
       \/ \E i \in DOMAIN its : \E f \in Range(its[i].files) : f \notin DOMAIN sourceFiles

\* The exits of a run that stopped at one of the checks.
FailureExits == {"not found", "parse", "schema", "duplicate", "dependency", "file"}

\* C15: with a source that is missing, unparsable or schema-invalid, that has
\* two items of one name, a local registryDependencies entry naming no item,
\* or a declared file that is not on the disk, a run of the bundler ends with
\* a failure and writes neither the output path nor the temporary file: a
\* bundle that was at the output path stays as it was.
C15_InvalidSourceWritesNothing ==
    [][SourceInvalid =>
          /\ bexit' \in FailureExits
          /\ bpc' = "idle"
          /\ bundleFile' = bundleFile
          /\ bundleTmp' = bundleTmp]_vars

\* A run has stopped at the dependency check and the old bundle is there.
C15_Witness == bexit = "dependency" /\ bundleFile = OldBundle

\* The packages the static imports of a content name: type-only lines and
\* aliased paths left out, a scoped import collapsed to its package root.
DetectedPackages(content) ==
    {PackageName(content[k].from[1]) :
        k \in {n \in DOMAIN content :
                 /\ content[n].head \notin {"import type", "export type"}
                 /\ content[n].from # <<>>
                 /\ \A a \in Range(DEFAULT_ALIAS_PREFIXES) : ~startsWith(content[n].from[1], a)}}

\* The declared dependencies of the source item a bundle item was built from.
DeclaredOf(i) ==
    IF registryJson.items[i].dependencies = <<>> THEN {}
    ELSE Range(registryJson.items[i].dependencies[1])

\* The packages detected in the files of the source item.
DetectedOf(i) ==
    UNION {DetectedPackages(sourceFiles[f]) : f \in Range(registryJson.items[i].files)}

\* C16: the dependencies of every item of a built bundle are, without
\* duplicates, the declared dependencies and the packages detected in its
\* files, less the core and less the peer dependencies.
C16_DependenciesWithoutCoreAndPeer ==
    \A i \in DOMAIN bundlerRun.items :
        /\ NoDuplicates(bundlerRun.items[i].dependencies)
        /\ Range(bundlerRun.items[i].dependencies) =
              ((DeclaredOf(i) \cup DetectedOf(i)) \ bundlerConfig.coreDeps)
                  \ bundlerConfig.peerDeps

\* What the code builds: a peer dependency is left out of the detected
\* packages only; a declared one stays.
C16_DeclaredPeerStays ==
    \A i \in DOMAIN bundlerRun.items :
        /\ NoDuplicates(bundlerRun.items[i].dependencies)
        /\ Range(bundlerRun.items[i].dependencies) =
              (DeclaredOf(i) \cup (DetectedOf(i) \ bundlerConfig.peerDeps))
                  \ bundlerConfig.coreDeps

\* A bundle was written whose item has a declared and a detected dependency.
C16_Witness ==
    /\ bexit = "returned"
    /\ \E i \in DOMAIN bundlerRun.items :
          /\ DeclaredOf(i) # {} /\ DetectedOf(i) # {}
          /\ DetectedOf(i) \cap bundlerConfig.peerDeps # {}

\* --------------------------------------------------------------------------
\* Properties of the artifact pipeline
\* --------------------------------------------------------------------------

\* The freshness check passes on the source and the public registry as they are.
FreshPasses == FreshFailure(registryJson, sourceFiles, publicRegistry, publicItemJson) = "none"

\* C17: a call of ensurePublicRegistryReady invokes the build only when the
\* index is missing or the freshness check has failed.  With the index there
\* and the check passing it returns without a build and the public directory
\* is as it was; with the index missing and no local binary it throws without
\* a build; and without a build the public directory is never changed.
C17_BuildOnlyWhenMissingOrStale ==
    [][ready' # ready =>
          /\ (publicRegistry.kind # "absent" /\ FreshPasses) =>
                 /\ ready'.outcome = "returned" /\ ready'.builds = <<>>
                 /\ UNCHANGED publicDirVars
          /\ (publicRegistry.kind = "absent" /\ ~hasLocalShadcn) =>
                 /\ ready'.outcome = "threw" /\ ready'.builds = <<>>
                 /\ UNCHANGED publicDirVars
          /\ ready'.builds # <<>> => (publicRegistry.kind = "absent" \/ ~FreshPasses)
          /\ ready'.builds = <<>> => UNCHANGED publicDirVars]_vars

\* A call has returned without a build, on a registry with items and a
\* local binary at hand.
C17_Witness ==
    /\ ready.outcome = "returned" /\ ready.builds = <<>>
    /\ hasLocalShadcn /\ publicRegistry.items # <<>>

\* The condition of the freshness check: both registries have the same
\* number of items, every source item has a published item of its name with
\* the same two arrays, and every file it declares is in the artifact of the
\* item with the content the source file has.
FreshAsStated ==
    /\ registryJson.kind = "json" /\ publicRegistry.kind = "json"
    /\ Len(registryJson.items) = Len(publicRegistry.items)
    /\ \A i \in DOMAIN registryJson.items :
          LET item == registryJson.items[i]
              artifact == publicItemJson[item.name]
          IN /\ \E j \in DOMAIN publicRegistry.items :
                   /\ publicRegistry.items[j].name = item.name
                   /\ OrEmpty(publicRegistry.items[j].dependencies) = OrEmpty(item.dependencies)
                   /\ OrEmpty(publicRegistry.items[j].registryDependencies)
                         = OrEmpty(item.registryDependencies)
             /\ \A f \in Range(item.files) :
                   /\ f \in DOMAIN sourceFiles
                   /\ \E k \in DOMAIN artifact.files :
                         /\ artifact.files[k].path = f
                         /\ artifact.files[k].content = <<sourceFiles[f]>>

\* The same, where the published item of a name is the last one of that
\* name in the index, the artifact of every source item is there, and the
\* file of a path is the last one of that path in the artifact.
FreshAsCoded ==
    /\ registryJson.kind = "json" /\ publicRegistry.kind = "json"
    /\ Len(registryJson.items) = Len(publicRegistry.items)
    /\ \A i \in DOMAIN registryJson.items :
          LET item == registryJson.items[i]
              artifact == publicItemJson[item.name]
          IN /\ \E j \in DOMAIN publicRegistry.items :
                   /\ publicRegistry.items[j].name = item.name
                   /\ \A l \in DOMAIN publicRegistry.items :
                         l > j => publicRegistry.items[l].name # item.name
                   /\ OrEmpty(publicRegistry.items[j].dependencies) = OrEmpty(item.dependencies)
                   /\ OrEmpty(publicRegistry.items[j].registryDependencies)
                         = OrEmpty(item.registryDependencies)
             /\ artifact.kind = "json"
             /\ \A f \in Range(item.files) :
                   /\ f \in DOMAIN sourceFiles
                   /\ \E k \in DOMAIN artifact.files :
                         /\ artifact.files[k].path = f
                         /\ \A l \in DOMAIN artifact.files :
                               l > k => artifact.files[l].path # f
                         /\ artifact.files[k].content = <<sourceFiles[f]>>

\* What a call of the freshness check leaves as it was: the source, the
\* public registry and the file system.
FreshWritesNothing == UNCHANGED <<registryJson, sourceFiles, publicDirVars, files, dirs, tmps>>

\* C18 (as stated): a call of validatePublicRegistryFresh returns iff the
\* registries have the same number of items, every source item has a
\* published item of its name with equal dependencies and
\* registryDependencies, and every declared file is in the item's artifact
\* with the content of the source file; and it writes nothing.
C18_FreshIffEqual ==
    [][freshTick' # freshTick =>
          /\ (fresh' = "none") <=> FreshAsStated
          /\ FreshWritesNothing]_vars

\* C18 (amended): the same, where the artifact of every source item has to
\* be there, files or not, and where of several published items of one name,
\* or several files of one path, the last one counts.
C18_FreshIffEqualAndArtifacts ==
    [][freshTick' # freshTick =>
          /\ (fresh' = "none") <=> FreshAsCoded
          /\ FreshWritesNothing]_vars

\* The check has passed on a source of two items, one of them with a file.
C18_Witness ==
    /\ freshTick /\ fresh = "none"
    /\ Len(registryJson.items) = 2
    /\ ready.outcome = "none"

\* --------------------------------------------------------------------------
\* Properties of detectPackageManager and of the dry run
\* --------------------------------------------------------------------------

\* The tools a source names: the packageManager field by its start, the user
\* agent by what it contains, the lock files by the most recent of them.
NamedBy(str, among) == {pm \in among : str # <<>> /\ includes(str[1], <<pm>>)}
DeclaredTools(among) == {pm \in among : packageManager # <<>> /\ startsWith(packageManager[1], <<pm>>)}
LatestLockTools ==
    {lockfiles[i].pm : i \in {n \in DOMAIN lockfiles :
        /\ lockfiles[n].file \in DOMAIN lockMtimes
        /\ \A f \in DOMAIN lockMtimes : lockMtimes[f] <= lockMtimes[lockfiles[n].file]}}

\* The precedence over the tools in among.
Precedence(among) ==
    IF DeclaredTools(among) # {} THEN DeclaredTools(among)
    ELSE IF NamedBy(userAgent, among) # {} THEN NamedBy(userAgent, among)
    ELSE IF LatestLockTools # {} THEN LatestLockTools
    ELSE {"npm"}

\* C19: the tool the packageManager field declares (npm, pnpm, yarn or bun)
\* is the result; else the tool the user agent names; else the tool of the
\* most recently modified lock file; else npm.
C19_StrictPrecedence == detected # "none" => detected \in Precedence(PackageManagers)

\* What the code does: the same, where neither a field nor a user agent
\* that names npm counts.
C19_PrecedenceWithoutNpm ==
    detected # "none" => detected \in Precedence(PackageManagers \ {"npm"})

\* C20: a dry-run call, whatever the file operations and the overwrite flag,
\* leaves every file and directory as it is, and invokes no package manager:
\* the installer is where it was.
C20_DryRunWritesNothing ==
    [][preview' # preview => UNCHANGED <<fsVars, installerVars>>]_vars

\* A preview has reported a file it would overwrite and one it would create.
C20_Witness ==
    /\ preview.kind = "files"
    /\ \E i, j \in DOMAIN preview.lines :
          preview.lines[i].action = "~" /\ preview.lines[j].action = "+"

\* --------------------------------------------------------------------------
\* Further properties of the installer
\* --------------------------------------------------------------------------

\* rollbackFiles has returned: its last step, the cleanup, is logged.
RollbackReturned ==
    rollbackLog # <<>> /\ rollbackLog[Len(rollbackLog)].step = "clean"

\* C24: after rollbackFiles has returned, the three tracking lists newFiles,
\* backups and createdDirs are empty.
C24_RollbackClearsTracking ==
    RollbackReturned => newFiles = <<>> /\ backups = <<>> /\ createdDirs = <<>>

\* What the code leaves: newFiles and backups as they were, and createdDirs
\* reversed in place.
C24_RollbackKeepsTracking ==
    [][(RollbackReturned' /\ ~RollbackReturned) =>
          /\ newFiles' = newFiles /\ backups' = backups
          /\ createdDirs' = Reverse(createdDirs)]_vars

\* The call of writeFilesWithRollback is in its loop or its catch block,
\* before any rollback.
InWriteCall ==
    /\ pc \notin {"idle", "awaitInstall", "rollbackRestore", "rollbackDelete"}
    /\ wfs.caller # "restore"

\* C25: at every point of writeFilesWithRollback, createdDirs lists without
\* duplicates, a parent before its children, exactly the directories that
\* were not there before the call and are there now, the ancestors that the
\* recursive mkdir created included.
C25_CreatedDirsExact ==
    InWriteCall =>
        /\ NoDuplicates(createdDirs)
        /\ Range(createdDirs) = dirs \ preDirs
        /\ \A i, j \in DOMAIN createdDirs :
              (i < j) => ~startsWith(createdDirs[i], createdDirs[j])

\* What the code keeps: createdDirs has no duplicates and no directory that
\* was there before the call.
C25_CreatedDirsNewAndDistinct ==
    InWriteCall =>
        /\ NoDuplicates(createdDirs)
        /\ Range(createdDirs) \cap preDirs = {}

\* At the target of a call of writeFileSafe on its own: the prior content
\* is there (or the target is still absent), or the complete new content.
TargetPriorOrNew ==
    LET p == wfs.filePath
    IN IF p \in DOMAIN files
       THEN \/ files[p] = UTF8Encode(wfs.content)
            \/ p \in DOMAIN preFiles /\ files[p] = preFiles[p]
       ELSE p \notin DOMAIN preFiles

\* The call has thrown after its temporary-file write or its rename failed.
CaughtFailure ==
    pc = "idle" /\ wfs.error \in {"write failed", "rename failed"}

\* C26 (as stated): at every point of a call of writeFileSafe the target has
\* its prior content (or is absent as before) or the complete new content;
\* after a failure of the temporary-file write or of the rename, the
\* temporary file is gone and the error is thrown again.
C26_AtomicAndTmpRemoved ==
    wfs.caller = "direct" =>
        /\ TargetPriorOrNew
        /\ CaughtFailure => wfs.result = "threw" /\ wfs.tmp \cap tmps = {}

\* C26 (amended): the same, where the removal of the temporary file is
\* tried: the file is gone when rmSync removed it, and stays when rmSync
\* failed, and the error is thrown again either way.
C26_AtomicAndTmpRemovalTried ==
    wfs.caller = "direct" =>
        /\ TargetPriorOrNew
        /\ CaughtFailure =>
              /\ wfs.result = "threw"
              /\ wfs.rm = "removed" => wfs.tmp \cap tmps = {}
              /\ wfs.rm \in RmStatuses

\* The rename onto an existing target has failed, and the call has thrown.
C26_Witness ==
    /\ wfs.caller = "direct" /\ pc = "idle"
    /\ wfs.error = "rename failed" /\ wfs.exists

\* C29: when writeFilesWithRollback returns, the three counters add up to
\* the number of operations, newFiles has one entry per written file and
\* backups one per overwritten file; without overwrite nothing is
\* overwritten and nothing is backed up.
C29_CountersAddUp ==
    outcome = "write-returned" =>
        /\ written + skipped + overwritten = Len(fileOps)
        /\ Len(newFiles) = written
        /\ Len(backups) = overwritten
        /\ ~overwrite => overwritten = 0 /\ backups = <<>>

\* A call with overwrite set has returned after writing one new file and
\* overwriting another.
C29_Witness ==
    /\ outcome = "write-returned" /\ overwrite
    /\ written >= 1 /\ overwritten >= 1

\* --------------------------------------------------------------------------
\* Further properties of the resolver
\* --------------------------------------------------------------------------

\* How many getItem calls the resolver made for name n.
LookupsOf(n) ==
    Cardinality({i \in DOMAIN resolveResult.lookups : resolveResult.lookups[i] = n})

\* C27: a call of resolveRegistryDeps that returns has called getItem
\* exactly once for every name of its result, and for no other name.
C27_OneLookupPerName ==
    resolveOutcome = "returned" =>
        /\ \A n \in Range(resolveResult.resolved) : LookupsOf(n) = 1
        /\ Range(resolveResult.lookups) = Range(resolveResult.resolved)

\* Two different requested items depend on one same item, and the call
\* has returned.
C27_Witness ==
    /\ resolveOutcome = "returned"
    /\ Len(names) = 2 /\ names[1] # names[2]
    /\ \E n \in Range(resolveResult.resolved) :
          /\ Includes(registry[names[1]].registryDependencies, n)
          /\ Includes(registry[names[2]].registryDependencies, n)

\* --------------------------------------------------------------------------
\* Further properties of the loader
\* --------------------------------------------------------------------------

\* The bundles the loader's verification accepts: the schema holds, and the
\* integrity, when there is a non-empty one, is that of the other members.
PassesVerification(b) ==
    /\ HasKey(b, "items") /\ Get(b, "items").t = "array"
    /\ HasKey(b, "integrity") =>
          /\ Get(b, "integrity").t = "string"
          /\ \/ Get(b, "integrity").s = ""
             \/ Get(b, "integrity") = Sha256Integrity(JSONstringify(Omit(b, "integrity")))

\* C30: a call of the loader that fails (file not found, parse, schema or
\* integrity failure) leaves the cache empty; a call that finds the cache
\* empty reads the file when there is one, and returns the file's bundle as
\* soon as that bundle passes verification; and a call returns only a
\* bundle that passes verification, so none that verification rejected.
C30_FailedLoadCachesNothing ==
    [][loadTick' # loadTick =>
        /\ loadResult'.kind # "returned" =>
              /\ loadResult'.kind \in {"not-found", "parse", "schema", "integrity"}
              /\ cached = <<>> /\ cached' = <<>>
        /\ (cached = <<>> /\ bundleFile.kind # "absent") => loadRead'
        /\ (cached = <<>> /\ bundleFile.kind = "json"
                /\ PassesVerification(bundleFile.value)) =>
              loadResult' = [kind |-> "returned", value |-> <<bundleFile.value>>]
        /\ loadResult'.kind = "returned" =>
              PassesVerification(loadResult'.value[1])]_vars

\* The second or a later call, and the first one to succeed: the calls
\* before it failed, and this one has read the file and returned its bundle.
C30_Witness ==
    /\ loadResult.kind = "returned" /\ loadRead
    /\ loadTick = FALSE
    /\ cached = <<bundleFile.value>>

\* --------------------------------------------------------------------------
\* The preview against the install
\* --------------------------------------------------------------------------

\* writeFilesWithRollback is at its return statement, line 110.
AtReturn == pc = "loop" /\ idx > Len(fileOps)

\* How the install counted operation i: its target is in newFiles
\* (written), in backups (overwritten), or in neither (skipped).
Counted(i) ==
    LET p == fileOps[i].targetPath
    IN IF Includes(newFiles, p) THEN "+"
       ELSE IF p \in BackupPaths THEN "~"
       ELSE "skip"

PreviewAgrees == \A i \in DOMAIN fileOps : preview.lines[i].action = Counted(i)

\* No target is another target's directory or lies above it.
NoTargetUnderAnother ==
    \A i, j \in DOMAIN fileOps :
        i # j => ~startsWith(fileOps[j].targetPath, fileOps[i].targetPath)

\* C28 (as stated): for operations with pairwise distinct targets, an
\* install that returns has counted every operation as the preview, taken
\* on the same file system with the same flag, classified it.
C28_PreviewPredictsInstall ==
    (AtReturn /\ DistinctTargets) => PreviewAgrees

\* C28 (amended): the same, for operations of which no target is the
\* directory, or an ancestor directory, of another target.
C28_PreviewPredictsInstallOfSeparateTargets ==
    (AtReturn /\ DistinctTargets /\ NoTargetUnderAnother) => PreviewAgrees

\* An install of two operations on separate targets is at its return, with
\* one file written and one overwritten or skipped.
C28_Witness ==
    /\ AtReturn /\ Len(fileOps) >= 2 /\ NoTargetUnderAnother
    /\ written >= 1 /\ overwritten + skipped >= 1

\* --------------------------------------------------------------------------
\* Properties of detectNpmImports
\* --------------------------------------------------------------------------

\* The package a specifier is in: @scope/pkg, or pkg.
PackageRoot(sp) ==
    IF sp.scope = <<>> THEN <<sp.pkg>> ELSE <<"@", sp.scope[1], "/", sp.pkg>>

\* The options of the call, with their defaults.
PeerDepsOfCall == OrDefault(libArgs.options.peerDeps, DEFAULT_PEER_DEPS)
AliasPrefixesOfCall == OrDefault(libArgs.options.aliasPrefixes, DEFAULT_ALIAS_PREFIXES)

\* The specifier starts with one of the alias prefixes of the call.
Aliased(sp) ==
    \E i \in DOMAIN AliasPrefixesOfCall :
        startsWith(SpecifierText(sp), AliasPrefixesOfCall[i])

\* The lines of the content that import or export values from a package: a
\* from clause, no type-only line, no alias prefix.
ValueImports ==
    {i \in DOMAIN libArgs.content :
        LET ln == libArgs.content[i]
        IN ln.clause /\ ~ln.typeOnly /\ ~Aliased(ln.specifier)}

\* C23: detectNpmImports returns the package root (@scope/pkg, or pkg) of
\* every import from a package subpath, unless it is a peer dependency;
\* type-only import and export lines and specifiers with an alias prefix
\* yield nothing (every name returned comes from another line); the list
\* has no duplicates and holds no configured peer dependency.
C23_DetectedImports ==
    libResult # <<>> =>
        LET imports == libResult[1]
        IN /\ \A i \in ValueImports :
                 LET sp == libArgs.content[i].specifier
                 IN (sp.prefix = <<>> /\ PackageRoot(sp) \notin PeerDepsOfCall)
                       => Includes(imports, PackageRoot(sp))
           /\ \A k \in DOMAIN imports :
                 \E i \in ValueImports :
                     startsWith(SpecifierText(libArgs.content[i].specifier), imports[k])
           /\ NoDuplicates(imports)
           /\ Range(imports) \cap PeerDepsOfCall = {}

\* A file of two lines, a type-only import and an import from a scoped
\* package subpath, has been scanned, and the package found.
C23_Witness ==
    /\ libResult # <<>> /\ Len(libArgs.content) = 2
    /\ libArgs.content[1].typeOnly
    /\ ~libArgs.content[2].typeOnly /\ libArgs.content[2].clause
    /\ libArgs.content[2].specifier.scope # <<>>
    /\ libArgs.content[2].specifier.sub # <<>>
    /\ libResult[1] = <<PackageRoot(libArgs.content[2].specifier)>>

\* --------------------------------------------------------------------------
\* Properties of rewriteOriginValue
\* --------------------------------------------------------------------------

\* The positions of str where an occurrence of from starts.
Occurrences(str, from) ==
    {i \in 1..(Len(str) - Len(from) + 1) : SubSeq(str, i, i + Len(from) - 1) = from}

\* str from position i on, with the occurrences that start at the
\* positions of at replaced by to.
RECURSIVE Spliced(_, _, _, _, _)
Spliced(str, at, from, to, i) ==
    IF i > Len(str) THEN <<>>
    ELSE IF i \in at THEN to \o Spliced(str, at, from, to, i + Len(from))
    ELSE <<str[i]>> \o Spliced(str, at, from, to, i + 1)

\* out is str with every occurrence of from replaced by to: some
\* occurrences that do not overlap are replaced, and no occurrence is left
\* clear of them.
EveryOccurrenceReplaced(str, out, from, to) ==
    \E at \in SUBSET Occurrences(str, from) :
        /\ \A i, j \in at : i < j => i + Len(from) <= j
        /\ \A i \in Occurrences(str, from) :
              \E j \in at : i < j + Len(from) /\ j < i + Len(from)
        /\ out = Spliced(str, at, from, to, 1)

\* out has the structure of value (the keys, the lengths and the order),
\* the same leaves that are no strings, and the rewritten strings.
RECURSIVE RewrittenFrom(_, _, _, _)
RewrittenFrom(value, out, from, to) ==
    /\ out.t = value.t
    /\ value.t = "string" => EveryOccurrenceReplaced(value.s, out.s, from, to)
    /\ value.t = "leaf" => out = value
    /\ value.t = "array" =>
          /\ Len(out.a) = Len(value.a)
          /\ \A i \in DOMAIN value.a : RewrittenFrom(value.a[i], out.a[i], from, to)
    /\ value.t = "object" =>
          /\ Len(out.m) = Len(value.m)
          /\ \A i \in DOMAIN value.m :
                /\ out.m[i].k = value.m[i].k
                /\ RewrittenFrom(value.m[i].v, out.m[i].v, from, to)

\* C22: the result of rewriteOriginValue has the structure of the value,
\* every leaf that is no string is unchanged, every string has every
\* occurrence of the from-origin replaced by the to-origin, and with equal
\* origins the result is the value.
C22_RewriteKeepsStructure ==
    libResult # <<>> =>
        LET from == OrDefault(libArgs.options.fromOrigin, DEFAULT_REGISTRY_ORIGIN)
            to == OrDefault(libArgs.options.toOrigin, DEFAULT_REGISTRY_ORIGIN)
        IN /\ RewrittenFrom(libArgs.value, libResult[1], from, to)
           /\ from = to => libResult[1] = libArgs.value

\* An object whose key and whose string both hold the from-origin, the
\* string twice, has been rewritten to another origin.
C22_Witness ==
    /\ libResult # <<>>
    /\ libArgs.options = [fromOrigin |-> <<>>, toOrigin |-> <<OtherOrigin>>]
    /\ libArgs.value =
          VObj(<<[k |-> DEFAULT_REGISTRY_ORIGIN,
                  v |-> VStr(<<"x">> \o DEFAULT_REGISTRY_ORIGIN \o DEFAULT_REGISTRY_ORIGIN)]>>)
    /\ libResult[1] =
          VObj(<<[k |-> DEFAULT_REGISTRY_ORIGIN,
                  v |-> VStr(<<"x">> \o OtherOrigin \o OtherOrigin)]>>)

\* --------------------------------------------------------------------------
\* Properties of computeInputsFingerprint
\* --------------------------------------------------------------------------

\* C21: with the inputs list and the files fixed, every run of
\* computeInputsFingerprint feeds its hash the same bytes, in whatever order
\* the directories are listed.
C21_SameBytesEveryRun ==
    \A i, j \in DOMAIN libResult : libResult[i] = libResult[j]

\* No two files of the directory d the tree has bear names that are
\* canonically equivalent.
NoEquivalentNames ==
    ~({Append(DirD, EAcuteNFC), Append(DirD, EAcuteNFD)}
          \subseteq DOMAIN libArgs.tree.contents)

\* Where no two names are canonically equivalent, the sort puts the files
\* in one order and every run feeds its hash the same bytes.
C21_SameBytesWithoutEquivalentNames ==
    NoEquivalentNames => \A i, j \in DOMAIN libResult : libResult[i] = libResult[j]

\* --------------------------------------------------------------------------
\* Repeated targets, and what the transaction leaves alone
\* --------------------------------------------------------------------------

\* The paths the call backed up two times or more: existing files that were
\* overwritten more than once.
BackedUpTwice ==
    {p \in BackupPaths :
        Cardinality({i \in DOMAIN backups : backups[i].path = p}) >= 2}

\* C32: when a call with overwrite = true has overwritten a file that was
\* there before it two or more times, then failed and rolled back without a
\* failing rollback step, the file holds the bytes it held before the call.
C32_RollbackRestoresRepeatedTarget ==
    (/\ outcome = "write-threw" /\ overwrite /\ ~rb.rollbackFailed
     /\ \A p \in DOMAIN preFiles : IsUTF8(preFiles[p]))
        => \A p \in BackedUpTwice \cap DOMAIN preFiles : Restored(p)

\* The targets of the file operations of the call.
TargetPaths == {fileOps[i].targetPath : i \in DOMAIN fileOps}

\* C31: at every point of writeFilesWithRollback, of its rollback and of
\* the rollback after a failed dependency install, and after them, every
\* file that was there before the call and is no target of the call holds
\* the bytes it held, and every directory that was there before the call is
\* still there, empty or not.
C31_TransactionFrame ==
    /\ \A p \in DOMAIN preFiles \ TargetPaths :
          p \in DOMAIN files /\ files[p] = preFiles[p]
    /\ preDirs \subseteq dirs

\* The rollback after a failed dependency install is over: it has removed a
\* file the call had created, a file that is no target was there before the
\* call, and so was a directory that is empty now.
C31_Witness ==
    /\ outcome = "install-threw" /\ ~rb.rollbackFailed
    /\ newFiles # <<>>
    /\ DOMAIN preFiles \ TargetPaths # {}
    /\ \E d \in preDirs : d # <<>> /\ DirIsEmpty(d, files, dirs, tmps)

\* --------------------------------------------------------------------------
\* The builder's validation against the resolver
\* --------------------------------------------------------------------------

\* C33: on a registry the builder's validation accepts, resolveRegistryDeps
\* on names of existing items never throws the missing-item error.
C33_AcceptedRegistryResolves ==
    (/\ resolveOutcome # "none"
     /\ BuilderAccepts(registry)
     /\ Range(names) \subseteq DOMAIN registry)
        => resolveResult.error.kind # "missing"

\* The same with no namespaced reference in the registry: the two sides
\* agree on the URL references and on the local ones.
C33_AgreeWithoutNamespacedRefs ==
    (/\ resolveOutcome # "none"
     /\ \A n \in DOMAIN registry :
          \A k \in DOMAIN registry[n].registryDependencies :
              registry[n].registryDependencies[k] \notin NamespacedRefs)
        => resolveResult.error.kind # "missing"

\* --------------------------------------------------------------------------
\* The builds and the last check of ensurePublicRegistryReady
\* --------------------------------------------------------------------------

\* C34: a call of ensurePublicRegistryReady runs the build at most twice,
\* once for a missing index and once for a failed freshness check; when it
\* has returned, the freshness check passes on the public directory as the
\* call left it; and when the check still fails after the rebuild, the call
\* has thrown that failure, with no further build.
C34_AtMostTwoBuildsAndFreshOnReturn ==
    /\ Len(ready.builds) <= 2
    /\ \A i, j \in DOMAIN ready.builds : i < j => ready.builds[i] # ready.builds[j]
    /\ ready.outcome = "returned" => FreshPasses
    /\ (/\ ready.outcome # "none" /\ ready.builds # <<>>
        /\ ready.builds[Len(ready.builds)] = "stale"
        /\ ready.error # "build failed")
           => IF FreshPasses
              THEN ready.outcome = "returned"
              ELSE /\ ready.outcome = "threw"
                   /\ ready.error = FreshFailure(registryJson, sourceFiles,
                                                 publicRegistry, publicItemJson)

\* A call has returned after two builds: the index was missing, the first
\* build left the check failing, the second one made it pass.
C34_Witness ==
    /\ ready.outcome = "returned" /\ ready.builds = <<"missing", "stale">>
    /\ registryJson.items # <<>>

\* A call has thrown the failure of the check after the second build.
C34_RaisedAfterRebuild ==
    /\ ready.outcome = "threw" /\ ready.builds = <<"missing", "stale">>
    /\ ready.error \notin {"", "build failed"}

\* --------------------------------------------------------------------------
\* Properties of buildRegistryArtifacts
\* --------------------------------------------------------------------------

\* The errors of the checks that come before the wipe.
PreconditionErrors ==
    {"requires rootDir", "requires manifest", "public registry not ready",
     "invalid required path", "required path not found", "invalid origin"}

\* The call has not come to the wipe.
BeforeWipe ==
    \/ artifactRun.pc \in {"called", "ensure", "required", "origin", "reset"}
    \/ artifactRun.pc = "threw" /\ artifactRun.error \in PreconditionErrors

\* The artifact directory: its files with their contents, its directories.
ArtifactTree(f, ds) ==
    [files |-> [q \in FilesUnder(f, ArtifactRoot) |-> f[q]],
     dirs |-> DirsUnder(ds, ArtifactRoot)]

\* A file of the artifact directory is below one of the rewriteDirs.
InRewriteDir(q) ==
    \E k \in DOMAIN artifactRun.options.rewriteDirs :
        LET dir == ArtifactRoot \o artifactRun.options.rewriteDirs[k]
        IN startsWith(q, dir) /\ Len(q) > Len(dir)

\* Every entry of copyDirs has all the files of its source in the artifact
\* directory, the JSON files below the rewriteDirs with the origin
\* rewritten and the others as they are in the source; and every one of
\* the rewriteDirs is there.
OutputsComplete ==
    /\ \A i \in DOMAIN artifactRun.options.copyDirs :
          LET entry == artifactRun.options.copyDirs[i]
          IN /\ entry.kind = "object"
             /\ PathExists(files, dirs, entry.from)
             /\ \A s \in FilesUnder(files, entry.from) :
                   LET q == Moved(s, entry.from, ArtifactRoot \o entry.to)
                   IN /\ q \in DOMAIN files
                      /\ files[q] = IF InRewriteDir(q) /\ IsJsonFile(q)
                                    THEN rewriteOriginValue(files[s], DEFAULT_REGISTRY_ORIGIN,
                                                            artifactRun.origin)
                                    ELSE files[s]
    /\ \A k \in DOMAIN artifactRun.options.rewriteDirs :
          ArtifactRoot \o artifactRun.options.rewriteDirs[k] \in dirs

\* C35: as long as the call has not passed its checks (rootDir and manifest
\* given, the public registry ready, every required path there, the origin
\* valid), and when one of them has failed, the artifact directory is as it
\* was when the call began; and from the wipe on, the fingerprint file is
\* there only with the manifest and with every copy and rewrite done.
C35_WipeAfterChecksFingerprintLast ==
    artifactRun.pc # "none" =>
        /\ BeforeWipe =>
              ArtifactTree(files, dirs)
                  = ArtifactTree(artifactRun.preFiles, artifactRun.preDirs)
        /\ (~BeforeWipe /\ FingerprintPath \in DOMAIN files) =>
              /\ artifactRun.pc = "returned"
              /\ ManifestPath \in DOMAIN files
              /\ OutputsComplete

\* A call has returned that made the public registry ready, copied a
\* directory and rewrote the origin in it, over the artifact directory of
\* an earlier build.
C35_Witness ==
    /\ artifactRun.pc = "returned"
    /\ FingerprintPath \in DOMAIN artifactRun.preFiles
    /\ artifactRun.options.ensurePublicRegistry /\ ready.builds # <<>>
    /\ artifactRun.options.copyDirs # <<>> /\ artifactRun.options.rewriteDirs # <<>>
    /\ artifactRun.options.requiredPaths # <<>>
    /\ artifactRun.origin # DEFAULT_REGISTRY_ORIGIN

\* A check has failed on a disk with the artifact directory of an earlier
\* build: the public registry, a required path, the origin.
C35_FailedCheck ==
    /\ artifactRun.pc = "threw" /\ FingerprintPath \in DOMAIN artifactRun.preFiles
    /\ artifactRun.error \in {"public registry not ready", "required path not found",
                              "invalid origin"}

\* A copy or a rewrite has failed after the wipe.
C35_FailedAfterWipe ==
    /\ artifactRun.pc = "threw" /\ FingerprintPath \in DOMAIN artifactRun.preFiles
    /\ artifactRun.error \in {"copy failed", "rewrite failed"}

\* --------------------------------------------------------------------------
\* What the hash is fed, over two disks
\* --------------------------------------------------------------------------

\* The declared inputs that exist in a tree, each with its content.
DeclaredInputs(tree, inputs) ==
    [p \in {inputs[i] : i \in DOMAIN inputs} \cap {relativePath(RootDir, q) : q \in DOMAIN tree.contents}
        |-> tree.contents[RootDir \o p]]

\* C36: two disks that differ in which declared inputs exist, or in the
\* content of one of them, feed the hash different bytes.
C36_DifferentInputsDifferentBytes ==
    (/\ libResult # <<>>
     /\ DeclaredInputs(libArgs.left, libArgs.inputs)
           # DeclaredInputs(libArgs.right, libArgs.inputs))
        => libResult[1] # libResult[2]

\* No file of a tree holds a line feed.
NoLineFeed(tree) ==
    \A p \in DOMAIN tree.contents : \A i \in DOMAIN tree.contents[p] : tree.contents[p][i] # 10

\* The same with no line feed in any file: the bytes then tell the files
\* and their contents apart.
C36_DifferentBytesWithoutLineFeeds ==
    (/\ libResult # <<>>
     /\ NoLineFeed(libArgs.left) /\ NoLineFeed(libArgs.right)
     /\ DeclaredInputs(libArgs.left, libArgs.inputs)
           # DeclaredInputs(libArgs.right, libArgs.inputs))
        => libResult[1] # libResult[2]

====
